---- MODULE Spec2Model ----
(***************************************************************************)
(* Model of the crossword grid placement engine (js/helpers/gridHelper.js) *)
(* driven by the word numbering of the editor (js/main.js).                *)
(*                                                                         *)
(* A grid is a function from <<row, col>> to a cell record.  A word is a   *)
(* record [id, word, startRow, startCol, direction, number] where `word`   *)
(* is the text as a sequence of one-letter strings.  JavaScript `null` for *)
(* cell.number is NoNumber, the empty string is "".  The localized reason  *)
(* messages of canPlaceWord are modelled by their kind.                    *)
(*                                                                         *)
(* Further sections model the grid validator and its cache                 *)
(* (js/validators/gridValidator.js), the word difficulty of the word       *)
(* helper, and the automatic placement of a word list.  Cyrillic letters   *)
(* are written by their names ("BE", "SOFT_SIGN", "YA").                   *)
(***************************************************************************)
EXTENDS Integers, Sequences, FiniteSets, TLC

(***************************************************************************)
(* Bounds of the model.                                                    *)
(***************************************************************************)
GridHeight == 2
GridWidth == 3
NumIds == 2
MaxSteps == 3

\* cell.number of a cell that starts no word (null in the source)
NoNumber == 0

Rows == 0 .. (GridHeight - 1)
Cols == 0 .. (GridWidth - 1)
Positions == Rows \X Cols

\* coordinates offered to blockCell / unblockCell: one step outside the grid on each side
AnchorRows == -1 .. GridHeight
AnchorCols == -1 .. GridWidth

\* anchors offered to placeWord: the grid and one step past its last row / column
StartRows == 0 .. GridHeight
StartCols == 0 .. GridWidth

Ids == 1 .. NumIds

\* texts offered to placeWord: "C" is too short; AT crosses CAR on its A, and laid over
\* CAR it matches one letter and clashes with another
Texts ==
    { <<"C">>, <<"A", "T">>, <<"C", "A", "R">> }

\* directions offered to placeWord; "diagonal" is not an orientation
DirectionInputs == { "horizontal", "vertical", "diagonal" }

(***************************************************************************)
(* Grid Model                                                              *)
(***************************************************************************)
createEmptyCell ==
    [ letter |-> "", number |-> NoNumber, blocked |-> FALSE,
      wordIds |-> << >>, directions |-> << >>,
      isStart |-> FALSE, isEnd |-> FALSE, isIntersection |-> FALSE ]

createEmptyGrid == [ p \in Positions |-> createEmptyCell ]

isValidPosition(row, col) ==
    row >= 0 /\ row < GridHeight /\ col >= 0 /\ col < GridWidth

includes(seq, x) == \E k \in 1 .. Len(seq) : seq[k] = x

\* Array.prototype.indexOf, 1-based; 0 when absent
indexOf(seq, x) ==
    IF includes(seq, x)
    THEN CHOOSE k \in 1 .. Len(seq) : seq[k] = x /\ \A m \in 1 .. (k - 1) : seq[m] # x
    ELSE 0

\* Array.prototype.splice(index, 1)
splice1(seq, k) == SubSeq(seq, 1, k - 1) \o SubSeq(seq, k + 1, Len(seq))

\* variant: the blocked cell keeps its letter
blockCell_keepsLetter(g, row, col) ==
    IF ~isValidPosition(row, col)
    THEN [ ret |-> FALSE, grid |-> g ]
    ELSE [ ret |-> TRUE,
           grid |-> [ g EXCEPT ![<<row, col>>] =
                        [ @ EXCEPT !.blocked = TRUE, !.number = NoNumber,
                                   !.wordIds = << >>, !.directions = << >>,
                                   !.isStart = FALSE, !.isEnd = FALSE ] ] ]

blockCell(g, row, col) ==
    IF ~isValidPosition(row, col)
    THEN [ ret |-> FALSE, grid |-> g ]
    ELSE [ ret |-> TRUE,
           grid |-> [ g EXCEPT ![<<row, col>>] =
                        [ @ EXCEPT !.blocked = TRUE, !.letter = "", !.number = NoNumber,
                                   !.wordIds = << >>, !.directions = << >>,
                                   !.isStart = FALSE, !.isEnd = FALSE ] ] ]

unblockCell(g, row, col) ==
    IF ~isValidPosition(row, col)
    THEN [ ret |-> FALSE, grid |-> g ]
    ELSE [ ret |-> TRUE, grid |-> [ g EXCEPT ![<<row, col>>].blocked = FALSE ] ]

(***************************************************************************)
(* Placement Engine                                                        *)
(***************************************************************************)
\* row / col of offset i (0-based) of a span
spanRow(startRow, direction, i) == IF direction = "vertical" THEN startRow + i ELSE startRow
spanCol(startCol, direction, i) == IF direction = "horizontal" THEN startCol + i ELSE startCol

\* variant: only a cell shared by two words counts as a word on the grid
hasWordsOnGrid_shared(g) ==
    \E p \in Positions : g[p].letter # "" /\ Len(g[p].wordIds) > 1

hasWordsOnGrid(g) ==
    \E p \in Positions : g[p].letter # "" /\ Len(g[p].wordIds) > 0

\* variant: the loop records intersections but never a conflict
RECURSIVE canPlaceLoop_noConflicts(_, _, _, _, _, _, _)
canPlaceLoop_noConflicts(g, word, startRow, startCol, direction, i, res) ==
    IF i >= Len(word) THEN res
    ELSE LET row == spanRow(startRow, direction, i)
             col == spanCol(startCol, direction, i)
         IN  IF ~isValidPosition(row, col)
             THEN [ res EXCEPT !.reason = "OutOfBounds" ]
             ELSE LET cell == g[<<row, col>>]
                      ch == word[i + 1]
                  IN  IF cell.blocked
                      THEN [ res EXCEPT !.reason = "Blocked" ]
                      ELSE canPlaceLoop_noConflicts(g, word, startRow, startCol, direction, i + 1,
                             [ res EXCEPT
                                 !.intersections =
                                     IF cell.letter # "" /\ cell.letter = ch
                                     THEN Append(@, [ position |-> <<row, col>>, letter |-> ch ])
                                     ELSE @ ])

\* the for loop of canPlaceWord from offset i on; res carries conflicts and intersections
RECURSIVE canPlaceLoop(_, _, _, _, _, _, _)
canPlaceLoop(g, word, startRow, startCol, direction, i, res) ==
    IF i >= Len(word) THEN res
    ELSE LET row == spanRow(startRow, direction, i)
             col == spanCol(startCol, direction, i)
         IN  IF ~isValidPosition(row, col)
             THEN [ res EXCEPT !.reason = "OutOfBounds" ]
             ELSE LET cell == g[<<row, col>>]
                      ch == word[i + 1]
                  IN  IF cell.blocked
                      THEN [ res EXCEPT !.reason = "Blocked" ]
                      ELSE canPlaceLoop(g, word, startRow, startCol, direction, i + 1,
                             [ res EXCEPT
                                 !.conflicts =
                                     IF cell.letter # "" /\ cell.letter # ch
                                     THEN Append(@, [ position |-> <<row, col>>,
                                                      existing |-> cell.letter,
                                                      required |-> ch ])
                                     ELSE @,
                                 !.intersections =
                                     IF cell.letter # "" /\ cell.letter = ch
                                     THEN Append(@, [ position |-> <<row, col>>, letter |-> ch ])
                                     ELSE @ ])

\* variant: a word that only repeats letters already on the grid is accepted
canPlaceWord_acceptsDuplicate(g, word, startRow, startCol, direction) ==
    LET result == [ canPlace |-> FALSE, conflicts |-> << >>,
                    intersections |-> << >>, reason |-> "" ]
    IN  IF Len(word) < 2
        THEN [ result EXCEPT !.reason = "TooShort" ]
        ELSE IF direction \notin { "horizontal", "vertical" }
        THEN [ result EXCEPT !.reason = "BadDirection" ]
        ELSE IF ~isValidPosition(startRow, startCol)
        THEN [ result EXCEPT !.reason = "StartOutOfBounds" ]
        ELSE LET res == canPlaceLoop(g, word, startRow, startCol, direction, 0, result)
             IN  IF res.reason # "" THEN res
                 ELSE IF Len(res.conflicts) > 0
                 THEN [ res EXCEPT !.reason = "LetterConflict" ]
                 ELSE IF hasWordsOnGrid(g) /\ Len(res.intersections) = 0
                 THEN [ res EXCEPT !.reason = "Isolated" ]
                 ELSE [ res EXCEPT !.canPlace = TRUE ]

canPlaceWord(g, word, startRow, startCol, direction) ==
    LET result == [ canPlace |-> FALSE, conflicts |-> << >>,
                    intersections |-> << >>, reason |-> "" ]
    IN  IF Len(word) < 2
        THEN [ result EXCEPT !.reason = "TooShort" ]
        ELSE IF direction \notin { "horizontal", "vertical" }
        THEN [ result EXCEPT !.reason = "BadDirection" ]
        ELSE IF ~isValidPosition(startRow, startCol)
        THEN [ result EXCEPT !.reason = "StartOutOfBounds" ]
        ELSE LET res == canPlaceLoop(g, word, startRow, startCol, direction, 0, result)
             IN  IF res.reason # "" THEN res
                 ELSE IF Len(res.intersections) = Len(word)
                 THEN [ res EXCEPT !.reason = "FullDuplicate" ]
                 ELSE IF Len(res.conflicts) > 0
                 THEN [ res EXCEPT !.reason = "LetterConflict" ]
                 ELSE IF hasWordsOnGrid(g) /\ Len(res.intersections) = 0
                 THEN [ res EXCEPT !.reason = "Isolated" ]
                 ELSE [ res EXCEPT !.canPlace = TRUE ]

\* variant: a cell becomes an intersection only with a third word
placeCell_lateIntersection(cell, w, i) ==
    LET ids == IF includes(cell.wordIds, w.id) THEN cell.wordIds
               ELSE Append(cell.wordIds, w.id)
        dirs == IF includes(cell.directions, w.direction) THEN cell.directions
                ELSE Append(cell.directions, w.direction)
    IN  [ cell EXCEPT
            !.letter = w.word[i + 1],
            !.wordIds = ids,
            !.directions = dirs,
            !.isIntersection = IF Len(ids) > 2 THEN TRUE ELSE @,
            !.isStart = IF i = 0 THEN TRUE ELSE @,
            !.number = IF i = 0 THEN w.number ELSE @,
            !.isEnd = IF i = Len(w.word) - 1 THEN TRUE ELSE @ ]

\* the body of the placement loop of placeWord for offset i
placeCell(cell, w, i) ==
    LET ids == IF includes(cell.wordIds, w.id) THEN cell.wordIds
               ELSE Append(cell.wordIds, w.id)
        dirs == IF includes(cell.directions, w.direction) THEN cell.directions
                ELSE Append(cell.directions, w.direction)
    IN  [ cell EXCEPT
            !.letter = w.word[i + 1],
            !.wordIds = ids,
            !.directions = dirs,
            !.isIntersection = IF Len(ids) > 1 THEN TRUE ELSE @,
            !.isStart = IF i = 0 THEN TRUE ELSE @,
            !.number = IF i = 0 THEN w.number ELSE @,
            !.isEnd = IF i = Len(w.word) - 1 THEN TRUE ELSE @ ]

RECURSIVE placeLoop(_, _, _)
placeLoop(g, w, i) ==
    IF i >= Len(w.word) THEN g
    ELSE LET p == << spanRow(w.startRow, w.direction, i), spanCol(w.startCol, w.direction, i) >>
         IN  placeLoop([ g EXCEPT ![p] = placeCell(@, w, i) ], w, i + 1)

\* variant: an isolated word is committed all the same
placeWord_ignoreIsolated(g, w) ==
    LET canPlace == canPlaceWord(g, w.word, w.startRow, w.startCol, w.direction)
    IN  IF ~canPlace.canPlace /\ canPlace.reason # "Isolated"
        THEN [ ret |-> FALSE, grid |-> g, reason |-> canPlace.reason ]
        ELSE [ ret |-> TRUE, grid |-> placeLoop(g, w, 0), reason |-> "" ]

placeWord(g, w) ==
    LET canPlace == canPlaceWord(g, w.word, w.startRow, w.startCol, w.direction)
    IN  IF ~canPlace.canPlace
        THEN [ ret |-> FALSE, grid |-> g, reason |-> canPlace.reason ]
        ELSE [ ret |-> TRUE, grid |-> placeLoop(g, w, 0), reason |-> "" ]

removeCell_keepsId(cell, wordId) ==
    IF indexOf(cell.wordIds, wordId) = 0 THEN cell
    ELSE [ cell EXCEPT !.isIntersection = Len(cell.wordIds) > 1 ]

\* the forEach body of removeWord for one cell
removeCell(cell, wordId) ==
    LET wordIndex == indexOf(cell.wordIds, wordId)
    IN  IF wordIndex = 0 THEN cell
        ELSE LET ids == splice1(cell.wordIds, wordIndex)
             IN  IF Len(ids) = 0
                 THEN [ cell EXCEPT !.wordIds = ids, !.letter = "", !.number = NoNumber,
                                    !.directions = << >>, !.isStart = FALSE,
                                    !.isEnd = FALSE, !.isIntersection = FALSE ]
                 ELSE [ cell EXCEPT !.wordIds = ids, !.isIntersection = Len(ids) > 1 ]

removeWord(g, wordId) ==
    [ ret |-> \E p \in Positions : includes(g[p].wordIds, wordId),
      grid |-> [ p \in Positions |-> removeCell(g[p], wordId) ] ]

(***************************************************************************)
(* Word collection of the editor                                           *)
(***************************************************************************)
RECURSIVE maxOf(_)
maxOf(S) ==
    IF S = {} THEN 0
    ELSE LET x == CHOOSE y \in S : TRUE
             m == maxOf(S \ {x})
         IN  IF x > m THEN x ELSE m

getNextWordNumber_noIncrement(ws) ==
    LET numbers == { w.number : w \in { v \in ws : v.number # NoNumber } }
    IN  IF Cardinality(numbers) > 0 THEN maxOf(numbers) ELSE 1

getNextWordNumber(ws) ==
    LET numbers == { w.number : w \in { v \in ws : v.number # NoNumber } }
    IN  IF Cardinality(numbers) > 0 THEN maxOf(numbers) + 1 ELSE 1

(***************************************************************************)
(* State                                                                   *)
(***************************************************************************)
VARIABLES
    grid,   \* the matrix of cells
    words,  \* the words placed and not since removed
    last,   \* the last call: [op, ret, reason]
    steps,  \* number of calls made so far
    input,  \* the arguments handed to the function under study (validator, word helper, autoPlaceWords)
    validationCache  \* GridValidator.validationCache: cache key -> report

vars == << grid, words, last, steps, input, validationCache >>

usedIds == { w.id : w \in words }

\* generateWordId returns an identifier no word of the collection has
generateWordId ==
    { id \in Ids \ usedIds : \A other \in Ids \ usedIds : id <= other }

\* every word data the next call of placeWord can be handed in the current state
Candidates ==
    IF steps >= MaxSteps THEN {}
    ELSE { [ id |-> id, word |-> t, startRow |-> r, startCol |-> c, direction |-> d,
             number |-> getNextWordNumber(words) ] :
             id \in generateWordId, t \in Texts, r \in StartRows, c \in StartCols,
             d \in DirectionInputs }

Init ==
    /\ grid = createEmptyGrid
    /\ words = {}
    /\ last = [ op |-> "init", ret |-> TRUE, reason |-> "" ]
    /\ steps = 0
    /\ input = << >>
    /\ validationCache = << >>

PlaceWord ==
    /\ steps < MaxSteps
    /\ steps' = steps + 1
    /\ \E w \in Candidates :
         LET r == placeWord(grid, w)
         IN  /\ grid' = r.grid
             /\ words' = IF r.ret THEN words \cup {w} ELSE words
             /\ last' = [ op |-> "place", ret |-> r.ret, reason |-> r.reason ]
    /\ UNCHANGED << input, validationCache >>

RemoveWord ==
    /\ steps < MaxSteps
    /\ steps' = steps + 1
    /\ \E id \in Ids :
        LET r == removeWord(grid, id)
        IN  /\ grid' = r.grid
            /\ words' = { w \in words : w.id # id }
            /\ last' = [ op |-> "remove", ret |-> r.ret, reason |-> "" ]
    /\ UNCHANGED << input, validationCache >>

BlockCell ==
    /\ steps < MaxSteps
    /\ steps' = steps + 1
    /\ \E row \in AnchorRows, col \in AnchorCols :
        LET r == blockCell(grid, row, col)
        IN  /\ grid' = r.grid
            /\ words' = words
            /\ last' = [ op |-> "block", ret |-> r.ret, reason |-> "" ]
    /\ UNCHANGED << input, validationCache >>

UnblockCell ==
    /\ steps < MaxSteps
    /\ steps' = steps + 1
    /\ \E row \in AnchorRows, col \in AnchorCols :
        LET r == unblockCell(grid, row, col)
        IN  /\ grid' = r.grid
            /\ words' = words
            /\ last' = [ op |-> "unblock", ret |-> r.ret, reason |-> "" ]
    /\ UNCHANGED << input, validationCache >>

Next == PlaceWord \/ RemoveWord \/ BlockCell \/ UnblockCell

Spec == Init /\ [][Next]_vars

\* the placement engine without the block / unblock mutators
NextPlaceRemove == PlaceWord \/ RemoveWord

SpecPlaceRemove == Init /\ [][NextPlaceRemove]_vars

(***************************************************************************)
(* Queries: canPlaceWord called on the grid of the editor                  *)
(***************************************************************************)
\* the arguments canPlaceWord is called with: every text, every start cell of the grid,
\* every direction input
QueryArgs ==
    [ word : Texts, startRow : Rows, startCol : Cols, direction : DirectionInputs ]

CanPlaceWord_marksCell ==
    /\ steps < MaxSteps
    /\ steps' = steps + 1
    /\ \E a \in QueryArgs :
        LET r == canPlaceWord(grid, a.word, a.startRow, a.startCol, a.direction)
        IN  /\ grid' = IF isValidPosition(a.startRow, a.startCol)
                       THEN [ grid EXCEPT ![<<a.startRow, a.startCol>>].isIntersection = TRUE ]
                       ELSE grid
            /\ last' = [ op |-> "canPlace", ret |-> r.canPlace, reason |-> r.reason,
                         args |-> a, intersections |-> r.intersections ]
    /\ UNCHANGED << words, input, validationCache >>

\* canPlaceWord reads the cells of the span and writes its findings to a fresh result
CanPlaceWord ==
    /\ steps < MaxSteps
    /\ steps' = steps + 1
    /\ \E a \in QueryArgs :
        LET r == canPlaceWord(grid, a.word, a.startRow, a.startCol, a.direction)
        IN  /\ grid' = grid
            /\ last' = [ op |-> "canPlace", ret |-> r.canPlace, reason |-> r.reason,
                         args |-> a, intersections |-> r.intersections ]
    /\ UNCHANGED << words, input, validationCache >>

NextQuery == PlaceWord \/ RemoveWord \/ CanPlaceWord

SpecQuery == Init /\ [][NextQuery]_vars

(***************************************************************************)
(* Grid quality validator (js/validators/gridValidator.js)                 *)
(*                                                                         *)
(* A grid argument is [isArray, rows]: rows is the array of rows, each an  *)
(* array of cells, indexed from 0 in the source and from 1 here; isArray   *)
(* is FALSE for an argument such as null.  A words argument is the Map in  *)
(* insertion order, a sequence of word records with different ids; clue is *)
(* a sequence of characters.  A string is a sequence of one-character      *)
(* strings.  A message is modelled by its kind and the values it quotes.   *)
(***************************************************************************)
minGridSize == 5
maxGridSize == 25
minWordLength == 2
maxWordLength == 25
minWordsCount == 2
maxWordsCount == 100

\* Math.round(NaN), Math.min(100, NaN) and Math.max(0, NaN) are NaN; NaN is not a number
\* of any range
NaN == -1

Strictness == { "normal", "strict" }

height(g) == Len(g.rows)
\* grid[0]?.length || 0
width(g) == IF Len(g.rows) = 0 THEN 0 ELSE Len(g.rows[1])

\* grid[row][col] evaluates to a cell (neither grid[row] nor the cell is undefined)
defined(g, row, col) ==
    /\ row >= 0 /\ row < Len(g.rows)
    /\ col >= 0 /\ col < Len(g.rows[row + 1])

at(g, row, col) == g.rows[row + 1][col + 1]

\* the positions of the grid in the order of grid.forEach(row => row.forEach(cell => ...))
RECURSIVE rowMajor(_, _, _)
rowMajor(g, row, col) ==
    IF row >= Len(g.rows) THEN << >>
    ELSE IF col >= Len(g.rows[row + 1]) THEN rowMajor(g, row + 1, 0)
    ELSE << <<row, col>> >> \o rowMajor(g, row, col + 1)

cellsOf(g) == LET ps == rowMajor(g, 0, 0) IN [ k \in 1 .. Len(ps) |-> at(g, ps[k][1], ps[k][2]) ]

\* Number.prototype.toString of an integer
RECURSIVE digitsOf(_)
digitsOf(n) ==
    LET d == << "0", "1", "2", "3", "4", "5", "6", "7", "8", "9" >>
    IN  IF n < 10 THEN << d[n + 1] >> ELSE digitsOf(n \div 10) \o << d[(n % 10) + 1] >>

toString(n) == IF n < 0 THEN << "-" >> \o digitsOf(0 - n) ELSE digitsOf(n)

\* the characters of the direction strings
charsOf(str) ==
    IF str = "horizontal" THEN << "h", "o", "r", "i", "z", "o", "n", "t", "a", "l" >>
    ELSE IF str = "vertical" THEN << "v", "e", "r", "t", "i", "c", "a", "l" >>
    ELSE << >>

\* String.prototype.charCodeAt for the characters the keys are made of
charCodeAt(ch) ==
    LET upper == << "A", "B", "C", "D", "E", "F", "G", "H", "I", "J", "K", "L", "M",
                    "N", "O", "P", "Q", "R", "S", "T", "U", "V", "W", "X", "Y", "Z" >>
        lower == << "a", "b", "c", "d", "e", "f", "g", "h", "i", "j", "k", "l", "m",
                    "n", "o", "p", "q", "r", "s", "t", "u", "v", "w", "x", "y", "z" >>
        digit == << "0", "1", "2", "3", "4", "5", "6", "7", "8", "9" >>
    IN  IF ch = "-" THEN 45
        ELSE IF ch = "|" THEN 124
        ELSE IF \E k \in 1 .. 10 : digit[k] = ch THEN 47 + (CHOOSE k \in 1 .. 10 : digit[k] = ch)
        ELSE IF \E k \in 1 .. 26 : upper[k] = ch THEN 64 + (CHOOSE k \in 1 .. 26 : upper[k] = ch)
        ELSE 96 + (CHOOSE k \in 1 .. 26 : lower[k] = ch)

\* simpleHash: hash = ((hash << 5) - hash) + char, then hash & hash, for every character.
\* The 32-bit integer is kept as its two 16-bit halves << high, low >>, so that
\* 31 * hash + char wraps modulo 2^32 as the conversion to a 32-bit integer does.
hashStep(hash, char) ==
    LET low == hash[2] * 31 + char
        high == hash[1] * 31 + (low \div 65536)
    IN  << high % 65536, low % 65536 >>

\* the for loop over the characters first .. last of str, in increasing order; the
\* range is walked half by half so that the evaluation nests only a few levels deep
simpleHash(str) ==
    LET loop[i \in Nat, hash \in Nat \X Nat] ==
            IF i > Len(str) THEN hash
            ELSE loop[i + 1, hashStep(hash, charCodeAt(str[i]))]
    IN  loop[1, << 0, 0 >>]

\* the text hashGrid adds for one cell: letter, 'B' when blocked, the number when truthy
cellText(cell) ==
    (IF cell.letter = "" THEN << >> ELSE << cell.letter >>)
    \o (IF cell.blocked THEN << "B" >> ELSE << >>)
    \o (IF cell.number # NoNumber THEN toString(cell.number) ELSE << >>)

RECURSIVE concat(_)
concat(seqs) == IF Len(seqs) = 0 THEN << >> ELSE Head(seqs) \o concat(Tail(seqs))

hashGrid(g) ==
    LET cells == cellsOf(g)
    IN  simpleHash(concat([ k \in 1 .. Len(cells) |-> cellText(cells[k]) ]))

\* Array.prototype.sort by id (ids are different, so the order is total): insertion sort
RECURSIVE sortById(_)
sortById(ws) ==
    IF Len(ws) = 0 THEN << >>
    ELSE LET rest == sortById(Tail(ws))
             w == Head(ws)
             before == SelectSeq(rest, LAMBDA v : v.id < w.id)
             after == SelectSeq(rest, LAMBDA v : ~(v.id < w.id))
         IN  before \o << w >> \o after

wordText(w) ==
    w.word \o << "-" >> \o charsOf(w.direction) \o << "-" >> \o toString(w.startRow)
           \o << "-" >> \o toString(w.startCol)

\* Array.prototype.join('|')
RECURSIVE join(_)
join(seqs) ==
    IF Len(seqs) = 0 THEN << >>
    ELSE IF Len(seqs) = 1 THEN seqs[1]
    ELSE seqs[1] \o << "|" >> \o join(Tail(seqs))

hashWords(ws) ==
    LET wordsArray == sortById(ws)
    IN  simpleHash(join([ k \in 1 .. Len(wordsArray) |-> wordText(wordsArray[k]) ]))

\* `${gridHash}-${wordsHash}-${strictness}`: the three parts determine the string and
\* the string determines them
generateCacheKey(g, ws, strictness) == << hashGrid(g), hashWords(ws), strictness >>

\* a localized message: its kind and the values it quotes
Msg(kind, word, a, b) == [ kind |-> kind, word |-> word, a |-> a, b |-> b ]

\* the indices 0 .. n-1 in increasing order
indices(n) == [ k \in 1 .. n |-> k - 1 ]

RECURSIVE sum(_)
sum(seq) == IF Len(seq) = 0 THEN 0 ELSE Head(seq) + sum(Tail(seq))

\* the result object validateGrid starts from
emptyResult ==
    [ isValid |-> TRUE, errors |-> << >>, warnings |-> << >>, suggestions |-> << >>,
      score |-> 0, thrown |-> FALSE,
      details |-> [ computed |-> {}, width |-> 0, height |-> 0, wordsCount |-> 0,
                    duplicateWords |-> 0, duplicateNumbers |-> 0, outOfBounds |-> 0,
                    overlapping |-> 0, intersections |-> 0, isolatedWords |-> 0,
                    integrityIssues |-> 0, filledCells |-> 0, blockedCells |-> 0,
                    totalCells |-> 0, components |-> 0, isolatedCells |-> 0,
                    largestComponent |-> 0, horizontalSymmetry |-> 0,
                    verticalSymmetry |-> 0, totalComparisons |-> 0, imbalance |-> 0 ] ]

isValidCellStructure(cell) ==
    { "letter", "wordIds", "directions", "blocked" } \subseteq DOMAIN cell

isValidWordStructure(word) ==
    /\ { "word", "clue", "direction", "startRow", "startCol" } \subseteq DOMAIN word
    /\ word.direction \in { "horizontal", "vertical" }
    /\ word.startRow \in Int
    /\ word.startCol \in Int

validateGridStructure(g, result) ==
    IF ~g.isArray
    THEN [ result EXCEPT !.errors = Append(@, Msg("NotAnArray", << >>, 0, 0)) ]
    ELSE IF Len(g.rows) = 0
    THEN [ result EXCEPT !.errors = Append(@, Msg("EmptyGrid", << >>, 0, 0)) ]
    ELSE LET expectedWidth == Len(g.rows[1])
             badRows == SelectSeq(indices(Len(g.rows)),
                                  LAMBDA i : Len(g.rows[i + 1]) # expectedWidth)
             badCells == SelectSeq(rowMajor(g, 0, 0),
                                   LAMBDA p : ~isValidCellStructure(at(g, p[1], p[2])))
         IN  [ result EXCEPT
                 !.errors = @ \o [ k \in 1 .. Len(badRows) |->
                                     Msg("RowLength", << >>, badRows[k], 0) ]
                              \o [ k \in 1 .. Len(badCells) |->
                                     Msg("CellStructure", << >>, badCells[k][1], badCells[k][2]) ] ]

validateGridSize(g, result) ==
    LET h == height(g)
        w == width(g)
        larger == IF w > h THEN w ELSE h
        smaller == IF w < h THEN w ELSE h
        \* Math.max(width, height) / Math.min(width, height) > 2; x / 0 is Infinity, 0 / 0 is NaN
        aspectOver2 == IF smaller = 0 THEN larger > 0 ELSE larger > 2 * smaller
    IN  [ result EXCEPT
            !.errors = @ \o (IF h < minGridSize \/ w < minGridSize
                             THEN << Msg("GridTooSmall", << >>, w, h) >> ELSE << >>)
                         \o (IF h > maxGridSize \/ w > maxGridSize
                             THEN << Msg("GridTooLarge", << >>, w, h) >> ELSE << >>),
            !.warnings = @ \o (IF aspectOver2 THEN << Msg("AspectRatio", << >>, w, h) >> ELSE << >>)
                           \o (IF w * h > 400 THEN << Msg("LargeGrid", << >>, 0, 0) >> ELSE << >>),
            !.details = [ @ EXCEPT !.computed = @ \cup { "gridSize" }, !.width = w, !.height = h ] ]

validateWords(ws, result) ==
    LET valid(k) == isValidWordStructure(ws[k])
        \* the word at k finds its text / its number in the set filled by the words before it
        repeatsText(k) == valid(k) /\ \E j \in 1 .. (k - 1) : valid(j) /\ ws[j].word = ws[k].word
        repeatsNumber(k) ==
            /\ valid(k) /\ ws[k].number # NoNumber
            /\ \E j \in 1 .. (k - 1) : valid(j) /\ ws[j].number = ws[k].number
        duplicateWords == Cardinality({ k \in 1 .. Len(ws) : repeatsText(k) })
        duplicateNumbers == Cardinality({ k \in 1 .. Len(ws) : repeatsNumber(k) })
        wordErrors(k) ==
            IF ~valid(k) THEN << Msg("WordStructure", << >>, k, 0) >>
            ELSE (IF Len(ws[k].word) < minWordLength
                  THEN << Msg("WordTooShort", ws[k].word, 0, 0) >> ELSE << >>)
                 \o (IF Len(ws[k].word) > maxWordLength
                     THEN << Msg("WordTooLong", ws[k].word, 0, 0) >> ELSE << >>)
        \* !word.clue || word.clue.trim().length < 5
        wordWarnings(k) ==
            IF valid(k) /\ Len(ws[k].clue) < 5
            THEN << Msg("ShortClue", ws[k].word, 0, 0) >> ELSE << >>
    IN  [ result EXCEPT
            !.errors = @ \o (IF Len(ws) < minWordsCount
                             THEN << Msg("TooFewWords", << >>, Len(ws), 0) >> ELSE << >>)
                         \o concat([ k \in 1 .. Len(ws) |-> wordErrors(k) ])
                         \o (IF duplicateWords > 0
                             THEN << Msg("DuplicateWords", << >>, duplicateWords, 0) >>
                             ELSE << >>),
            !.warnings = @ \o (IF Len(ws) > maxWordsCount
                               THEN << Msg("ManyWords", << >>, Len(ws), 0) >> ELSE << >>)
                           \o concat([ k \in 1 .. Len(ws) |-> wordWarnings(k) ])
                           \o (IF duplicateNumbers > 0
                               THEN << Msg("DuplicateNumbers", << >>, duplicateNumbers, 0) >>
                               ELSE << >>),
            !.details = [ @ EXCEPT !.computed = @ \cup { "wordsCount", "duplicates" },
                                   !.wordsCount = Len(ws),
                                   !.duplicateWords = duplicateWords,
                                   !.duplicateNumbers = duplicateNumbers ] ]

\* row / col of the letter i (from 0) of a word of the validator
letterRow(word, i) == IF word.direction = "vertical" THEN word.startRow + i ELSE word.startRow
letterCol(word, i) == IF word.direction = "horizontal" THEN word.startCol + i ELSE word.startCol

validateWordPlacements(g, ws, result) ==
    LET gridHeight == height(g)
        gridWidth == width(g)
        outOfBounds(word) ==
            \/ word.startRow < 0 \/ word.startCol < 0
            \/ letterRow(word, Len(word.word) - 1) >= gridHeight
            \/ letterCol(word, Len(word.word) - 1) >= gridWidth
        cellOf(word, i) == at(g, letterRow(word, i), letterCol(word, i))
        conflict(word, i) ==
            /\ cellOf(word, i).letter # ""
            /\ cellOf(word, i).letter # word.word[i + 1]
        letterErrors(word, i) ==
            IF cellOf(word, i).blocked
            THEN << Msg("ThroughBlocked", word.word, letterRow(word, i), letterCol(word, i)) >>
            ELSE IF conflict(word, i)
            THEN << Msg("LetterConflict", word.word, letterRow(word, i), letterCol(word, i)) >>
            ELSE << >>
        letterWarnings(word, i) ==
            IF ~cellOf(word, i).blocked /\ ~includes(cellOf(word, i).wordIds, word.id)
            THEN << Msg("NotRegistered", word.word, letterRow(word, i), letterCol(word, i)) >>
            ELSE << >>
        wordErrors(word) ==
            IF outOfBounds(word) THEN << Msg("OutOfBounds", word.word, 0, 0) >>
            ELSE concat([ k \in 1 .. Len(word.word) |-> letterErrors(word, k - 1) ])
        wordWarnings(word) ==
            IF outOfBounds(word) THEN << >>
            ELSE concat([ k \in 1 .. Len(word.word) |-> letterWarnings(word, k - 1) ])
        overlappingCount(word) ==
            IF outOfBounds(word) THEN 0
            ELSE Cardinality({ i \in 0 .. (Len(word.word) - 1) :
                                 ~cellOf(word, i).blocked /\ conflict(word, i) })
    IN  [ result EXCEPT
            !.errors = @ \o concat([ k \in 1 .. Len(ws) |-> wordErrors(ws[k]) ]),
            !.warnings = @ \o concat([ k \in 1 .. Len(ws) |-> wordWarnings(ws[k]) ]),
            !.details = [ @ EXCEPT !.computed = @ \cup { "placementErrors" },
                                   !.outOfBounds = Len(SelectSeq(ws, outOfBounds)),
                                   !.overlapping = sum([ k \in 1 .. Len(ws) |-> overlappingCount(ws[k]) ]) ] ]

\* the loop of validateIntersections over the letters of a word, from letter i on:
\* "throw" when grid[row][col] is undefined and its wordIds is read, "hit" at the first
\* cell with more than one word id, "none" at the end of the word
RECURSIVE scanIntersections(_, _, _)
scanIntersections(g, word, i) ==
    IF i >= Len(word.word) THEN "none"
    ELSE IF ~defined(g, letterRow(word, i), letterCol(word, i)) THEN "throw"
    ELSE IF Len(at(g, letterRow(word, i), letterCol(word, i)).wordIds) > 1 THEN "hit"
    ELSE scanIntersections(g, word, i + 1)

validateIntersections(g, ws, strictness, result) ==
    LET cells == cellsOf(g)
        totalIntersections == Len(SelectSeq(cells, LAMBDA cell : Len(cell.wordIds) > 1))
        scans == [ k \in 1 .. Len(ws) |-> scanIntersections(g, ws[k], 0) ]
        isolatedWords ==
            SelectSeq(ws, LAMBDA word : scanIntersections(g, word, 0) = "none" /\ Len(ws) > 1)
        \* averageIntersectionsPerWord < minIntersections, with minIntersections = 1
        fewIntersections == IF Len(ws) > 0 THEN totalIntersections < Len(ws) ELSE TRUE
    IN  IF \E k \in 1 .. Len(ws) : scans[k] = "throw"
        THEN [ result EXCEPT !.thrown = TRUE ]
        ELSE [ result EXCEPT
                 !.warnings = @ \o (IF strictness = "strict" /\ fewIntersections
                                    THEN << Msg("FewIntersections", << >>,
                                                totalIntersections, Len(ws)) >>
                                    ELSE << >>)
                                \o (IF Len(isolatedWords) > 0
                                    THEN << Msg("IsolatedWords",
                                                concat([ k \in 1 .. Len(isolatedWords) |-> isolatedWords[k].word ]),
                                                Len(isolatedWords), 0) >>
                                    ELSE << >>),
                 !.details = [ @ EXCEPT !.computed = @ \cup { "intersections" },
                                        !.intersections = totalIntersections,
                                        !.isolatedWords = Len(isolatedWords) ] ]

validateGridIntegrity(g, ws, result) ==
    LET positions == rowMajor(g, 0, 0)
        \* const startCell = grid[word.startRow][word.startCol];
        \* word.number && startCell.number !== word.number
        throws(word) ==
            \/ word.startRow < 0 \/ word.startRow >= Len(g.rows)
            \/ /\ ~defined(g, word.startRow, word.startCol)
               /\ word.number # NoNumber
        mismatch(word) ==
            /\ word.number # NoNumber
            /\ at(g, word.startRow, word.startCol).number # word.number
        has(wordId) == \E k \in 1 .. Len(ws) : ws[k].id = wordId
        mismatched == SelectSeq(ws, mismatch)
        numberIssues ==
            [ k \in 1 .. Len(mismatched) |-> Msg("NumberMismatch", mismatched[k].word, 0, 0) ]
        numbered == SelectSeq(positions, LAMBDA p : /\ at(g, p[1], p[2]).number # NoNumber
                                                    /\ Len(at(g, p[1], p[2]).wordIds) = 0)
        emptyNumbered ==
            [ k \in 1 .. Len(numbered) |->
                Msg("NumberWithoutWord", << >>, at(g, numbered[k][1], numbered[k][2]).number, 0) ]
        dangling(p) ==
            LET unknown == SelectSeq(at(g, p[1], p[2]).wordIds, LAMBDA wordId : ~has(wordId))
            IN  [ k \in 1 .. Len(unknown) |-> Msg("UnknownWord", << >>, p[1], p[2]) ]
        issues == numberIssues \o emptyNumbered
                  \o concat([ k \in 1 .. Len(positions) |-> dangling(positions[k]) ])
    IN  IF \E k \in 1 .. Len(ws) : throws(ws[k])
        THEN [ result EXCEPT !.thrown = TRUE ]
        ELSE [ result EXCEPT
                 !.warnings = @ \o issues,
                 !.details = [ @ EXCEPT !.computed = @ \cup { "integrityIssues" },
                                        !.integrityIssues = Len(issues) ] ]

validateDensity(g, result) ==
    LET cells == cellsOf(g)
        totalCells == height(g) * width(g)
        blockedCells == Len(SelectSeq(cells, LAMBDA cell : cell.blocked))
        filledCells == Len(SelectSeq(cells, LAMBDA cell : ~cell.blocked /\ cell.letter # ""))
        \* density = totalCells > 0 ? filledCells / totalCells : 0, compared with
        \* minDensity = 0.1 and maxDensity = 0.8; blockedRatio likewise, with 0.3
        lowDensity == IF totalCells > 0 THEN 10 * filledCells < totalCells ELSE TRUE
        highDensity == totalCells > 0 /\ 10 * filledCells > 8 * totalCells
        manyBlocked == totalCells > 0 /\ 10 * blockedCells > 3 * totalCells
    IN  [ result EXCEPT
            !.warnings = @ \o (IF lowDensity THEN << Msg("LowDensity", << >>, filledCells, totalCells) >>
                               ELSE << >>)
                           \o (IF highDensity THEN << Msg("HighDensity", << >>, filledCells, totalCells) >>
                               ELSE << >>)
                           \o (IF manyBlocked THEN << Msg("ManyBlocked", << >>, blockedCells, totalCells) >>
                               ELSE << >>),
            !.details = [ @ EXCEPT !.computed = @ \cup { "density" },
                                   !.filledCells = filledCells,
                                   !.blockedCells = blockedCells,
                                   !.totalCells = totalCells ] ]

\* the cell dfs and the scan of findConnectedComponents take up: not blocked, with a letter
lettered(g, row, col) == ~at(g, row, col).blocked /\ at(g, row, col).letter # ""

RECURSIVE dfs_neverLeft(_, _, _, _)
dfs_neverLeft(g, row, col, st) ==
    IF row < 0 \/ row >= Len(g.rows) THEN st
    ELSE IF col < 0 \/ col >= Len(g.rows[1]) THEN st
    ELSE IF <<row, col>> \in st.visited THEN st
    ELSE IF ~lettered(g, row, col) THEN st
    ELSE LET s0 == [ visited |-> st.visited \cup { <<row, col>> },
                     component |-> Append(st.component, <<row, col>>) ]
             s1 == dfs_neverLeft(g, row - 1, col, s0)
             s2 == dfs_neverLeft(g, row + 1, col, s1)
         IN  dfs_neverLeft(g, row, col + 1, s2)

\* dfs of findConnectedComponents; st is [visited, component]
RECURSIVE dfs(_, _, _, _)
dfs(g, row, col, st) ==
    IF row < 0 \/ row >= Len(g.rows) THEN st
    ELSE IF col < 0 \/ col >= Len(g.rows[1]) THEN st
    ELSE IF <<row, col>> \in st.visited THEN st
    ELSE IF ~lettered(g, row, col) THEN st
    ELSE LET s0 == [ visited |-> st.visited \cup { <<row, col>> },
                     component |-> Append(st.component, <<row, col>>) ]
             s1 == dfs(g, row - 1, col, s0)
             s2 == dfs(g, row + 1, col, s1)
             s3 == dfs(g, row, col - 1, s2)
         IN  dfs(g, row, col + 1, s3)

\* the two for loops of findConnectedComponents from position k of the row-major order on
RECURSIVE componentsFrom(_, _, _, _)
componentsFrom(g, positions, k, acc) ==
    IF k > Len(positions) THEN acc.components
    ELSE LET row == positions[k][1]
             col == positions[k][2]
         IN  IF <<row, col>> \notin acc.visited /\ lettered(g, row, col)
             THEN LET st == dfs(g, row, col, [ visited |-> acc.visited, component |-> << >> ])
                  IN  componentsFrom(g, positions, k + 1,
                        [ visited |-> st.visited,
                          components |-> IF Len(st.component) > 0
                                         THEN Append(acc.components, st.component)
                                         ELSE acc.components ])
             ELSE componentsFrom(g, positions, k + 1, acc)

findConnectedComponents(g) ==
    componentsFrom(g, rowMajor(g, 0, 0), 1, [ visited |-> {}, components |-> << >> ])

findIsolatedCells(g) ==
    SelectSeq(rowMajor(g, 0, 0),
              LAMBDA p : /\ at(g, p[1], p[2]).letter # ""
                         /\ ~at(g, p[1], p[2]).blocked
                         /\ Len(at(g, p[1], p[2]).wordIds) = 0)

validateIsolation(g, result) ==
    LET connectedComponents == findConnectedComponents(g)
        isolatedCells == findIsolatedCells(g)
        sizes == { Len(connectedComponents[k]) : k \in 1 .. Len(connectedComponents) }
    IN  [ result EXCEPT
            !.warnings = @ \o (IF Len(connectedComponents) > 1
                               THEN << Msg("SeparateGroups", << >>, Len(connectedComponents), 0) >>
                               ELSE << >>)
                           \o (IF Len(isolatedCells) > 0
                               THEN << Msg("IsolatedCells", << >>, Len(isolatedCells), 0) >>
                               ELSE << >>),
            !.details = [ @ EXCEPT !.computed = @ \cup { "connectivity" },
                                   !.components = Len(connectedComponents),
                                   !.isolatedCells = Len(isolatedCells),
                                   !.largestComponent = maxOf(sizes) ] ]

\* analyzeSymmetry: the two counts and totalComparisons, which is reset before the
\* second pair of loops and so counts the comparisons of the vertical symmetry only
\* the returned ratios are exact fractions [num, den]; the literal 0 is 0 / 1
analyzeSymmetry(g) ==
    LET h == height(g)
        w == width(g)
        same(r1, c1, r2, c2) == at(g, r1, c1).blocked = at(g, r2, c2).blocked
        horizontalSymmetry ==
            Cardinality({ p \in (0 .. ((h \div 2) - 1)) \X (0 .. (w - 1)) :
                            same(p[1], p[2], h - 1 - p[1], p[2]) })
        verticalSymmetry ==
            Cardinality({ p \in (0 .. (h - 1)) \X (0 .. ((w \div 2) - 1)) :
                            same(p[1], p[2], p[1], w - 1 - p[2]) })
        totalComparisons == (w \div 2) * h
        ratio(n) == IF totalComparisons > 0 THEN [ num |-> n, den |-> totalComparisons ]
                    ELSE [ num |-> 0, den |-> 1 ]
    IN  [ horizontalSymmetry |-> horizontalSymmetry,
          verticalSymmetry |-> verticalSymmetry,
          totalComparisons |-> totalComparisons,
          horizontal |-> ratio(horizontalSymmetry),
          vertical |-> ratio(verticalSymmetry) ]

\* analyzeQuadrantDistribution and the balance term of analyzeAesthetics:
\* |topLeft + bottomRight - topRight - bottomLeft|
imbalance(g) ==
    LET midRow == height(g) \div 2
        midCol == width(g) \div 2
        filled == { p \in (0 .. (height(g) - 1)) \X (0 .. (width(g) - 1)) :
                      lettered(g, p[1], p[2]) }
        topLeft == Cardinality({ p \in filled : p[1] < midRow /\ p[2] < midCol })
        topRight == Cardinality({ p \in filled : p[1] < midRow /\ p[2] >= midCol })
        bottomLeft == Cardinality({ p \in filled : p[1] >= midRow /\ p[2] < midCol })
        bottomRight == Cardinality({ p \in filled : p[1] >= midRow /\ p[2] >= midCol })
        d == topLeft + bottomRight - topRight - bottomLeft
    IN  IF d < 0 THEN 0 - d ELSE d

\* analyzeGridQuality with generateQualityRecommendations.  The words carry no
\* difficulty (word.difficulty || 0 is 0), so the average difficulty is 0 and
\* overallComplexity is half the average of wordIds.length - 1 over the crossings.
analyzeGridQuality(g, ws, result) ==
    LET horizontal == Len(SelectSeq(ws, LAMBDA word : word.direction = "horizontal"))
        vertical == Len(SelectSeq(ws, LAMBDA word : word.direction = "vertical"))
        \* Math.abs(ratio - 1) > 0.3 with ratio = horizontal > 0 ? vertical / horizontal : 0
        unbalanced ==
            IF horizontal = 0 THEN TRUE
            ELSE 10 * (IF vertical > horizontal THEN vertical - horizontal
                       ELSE horizontal - vertical) > 3 * horizontal
        symmetry == analyzeSymmetry(g)
        tc == symmetry.totalComparisons
        over08(n) == tc > 0 /\ 10 * n > 8 * tc
        under03(n) == tc = 0 \/ 10 * n < 3 * tc
        crossings == SelectSeq(cellsOf(g), LAMBDA cell : Len(cell.wordIds) > 1)
        intersectionComplexity == sum([ k \in 1 .. Len(crossings) |-> Len(crossings[k].wordIds) - 1 ])
        \* overallComplexity < 0.3 and > 0.8
        tooSimple == Len(crossings) = 0 \/ 10 * intersectionComplexity < 6 * Len(crossings)
        tooComplex == Len(crossings) > 0 /\ 10 * intersectionComplexity > 16 * Len(crossings)
    IN  [ result EXCEPT
            !.suggestions =
                @ \o (IF unbalanced THEN << "BalanceDirections" >> ELSE << >>)
                  \o (IF over08(symmetry.horizontalSymmetry) \/ over08(symmetry.verticalSymmetry)
                      THEN << "GoodSymmetry" >>
                      ELSE IF under03(symmetry.horizontalSymmetry)
                              /\ under03(symmetry.verticalSymmetry)
                      THEN << "AddSymmetry" >>
                      ELSE << >>)
                  \o (IF tooSimple THEN << "TooSimple" >>
                      ELSE IF tooComplex THEN << "TooComplex" >>
                      ELSE << >>),
            !.details = [ @ EXCEPT !.computed = @ \cup { "quality" },
                                   !.horizontalSymmetry = symmetry.horizontalSymmetry,
                                   !.verticalSymmetry = symmetry.verticalSymmetry,
                                   !.totalComparisons = tc,
                                   !.imbalance = imbalance(g) ] ]

\* calculateOverallScore.  With tc = totalComparisons and area = height * width the sum is
\*   100 - 20 errors - 5 warnings + 5 (horizontal + vertical) / tc
\*       + 10 (1 - imbalance / area) - 10 [density outside 0.1 .. 0.8]
\* computed exactly as numerator / (tc * area); Math.round(x) is floor(x + 1/2).
\* With area = 0 the balance is 1 - 0 / 0 = NaN and so is the score.
calculateOverallScore(result) ==
    LET d == result.details
        tc == IF d.totalComparisons > 0 THEN d.totalComparisons ELSE 1
        symmetries == IF d.totalComparisons > 0
                      THEN d.horizontalSymmetry + d.verticalSymmetry ELSE 0
        area == d.width * d.height
        outside == IF d.totalCells > 0
                   THEN 10 * d.filledCells < d.totalCells \/ 10 * d.filledCells > 8 * d.totalCells
                   ELSE TRUE
        whole == 100 - 20 * Len(result.errors) - 5 * Len(result.warnings)
                     - (IF "density" \in d.computed /\ outside THEN 10 ELSE 0)
        numerator == whole * tc * area + 5 * symmetries * area + 10 * (area - d.imbalance) * tc
        denominator == tc * area
        rounded == (2 * numerator + denominator) \div (2 * denominator)
    IN  IF "quality" \notin d.computed
        THEN (IF whole < 0 THEN 0 ELSE whole)
        ELSE IF area = 0 THEN NaN
        ELSE IF rounded > 100 THEN 100
        ELSE IF rounded < 0 THEN 0
        ELSE rounded

\* the fields of the result object that validateGrid returns
reportOf(result) ==
    [ isValid |-> result.isValid, errors |-> result.errors, warnings |-> result.warnings,
      suggestions |-> result.suggestions, score |-> result.score, details |-> result.details ]

\* a step of the try block: skipped once an earlier step has thrown
thenGridIntegrity(g, ws, result) ==
    IF result.thrown THEN result ELSE validateGridIntegrity(g, ws, result)

thenDensity(g, result) ==
    IF result.thrown THEN result ELSE validateDensity(g, result)

thenIsolation(g, result) ==
    IF result.thrown THEN result ELSE validateIsolation(g, result)

thenGridQuality(g, ws, result) ==
    IF result.thrown THEN result ELSE analyzeGridQuality(g, ws, result)

\* the end of the try block, or the catch block when a step has thrown
conclude(result) ==
    IF result.thrown
    THEN reportOf([ result EXCEPT !.isValid = FALSE,
                                  !.errors = Append(@, Msg("Critical", << >>, 0, 0)),
                                  !.score = 0 ])
    ELSE reportOf([ result EXCEPT !.score = calculateOverallScore(result),
                                  !.isValid = Len(result.errors) = 0 ])

\* the body of validateGrid after the cache lookup: the try block and its catch
computeReport(g, ws, strictness) ==
    conclude(
      thenGridQuality(g, ws,
        thenIsolation(g,
          thenDensity(g,
            thenGridIntegrity(g, ws,
              validateIntersections(g, ws, strictness,
                validateWordPlacements(g, ws,
                  validateWords(ws,
                    validateGridSize(g,
                      validateGridStructure(g, emptyResult))))))))))

validateGrid_noLookup(g, ws, strictness, cache) ==
    IF ~g.isArray
    THEN [ threw |-> TRUE, cached |-> FALSE, key |-> << >>, report |-> reportOf(emptyResult),
           cache |-> cache ]
    ELSE LET cacheKey == generateCacheKey(g, ws, strictness)
             result == computeReport(g, ws, strictness)
         IN  [ threw |-> FALSE, cached |-> FALSE, key |-> cacheKey, report |-> result,
               cache |-> [ k \in (DOMAIN cache) \cup { cacheKey } |->
                             IF k = cacheKey THEN result ELSE cache[k] ] ]

\* validateGrid(grid, words, strictness) on a validator whose cache is cache:
\* threw tells that the call ended with an exception (generateCacheKey is called
\* before the try block, and hashGrid calls grid.forEach), cached that the report
\* came from the cache
validateGrid(g, ws, strictness, cache) ==
    IF ~g.isArray
    THEN [ threw |-> TRUE, cached |-> FALSE, key |-> << >>, report |-> reportOf(emptyResult),
           cache |-> cache ]
    ELSE LET cacheKey == generateCacheKey(g, ws, strictness)
         IN  IF cacheKey \in DOMAIN cache
             THEN [ threw |-> FALSE, cached |-> TRUE, key |-> cacheKey,
                    report |-> cache[cacheKey], cache |-> cache ]
             ELSE LET result == computeReport(g, ws, strictness)
                  IN  [ threw |-> FALSE, cached |-> FALSE, key |-> cacheKey,
                        report |-> result,
                        cache |-> [ k \in (DOMAIN cache) \cup { cacheKey } |->
                                      IF k = cacheKey THEN result ELSE cache[k] ] ]

(***************************************************************************)
(* Calls of the validator                                                  *)
(***************************************************************************)
MaxCalls == 2

\* the cells of the grid arguments: empty, blocked, the letter B of word 1, the letter B
\* shared by words 1 and 2
CellInputs ==
    { createEmptyCell,
      [ createEmptyCell EXCEPT !.blocked = TRUE ],
      [ createEmptyCell EXCEPT !.letter = "B", !.wordIds = << 1 >>,
                               !.directions = << "horizontal" >> ],
      [ createEmptyCell EXCEPT !.letter = "B", !.wordIds = << 1, 2 >>,
                               !.directions = << "horizontal", "vertical" >>,
                               !.isIntersection = TRUE ] }

\* the grid arguments: null, the empty array, and the grids of one row of two cells
\* whose second cell holds at most one word
GridInputs ==
    { [ isArray |-> FALSE, rows |-> << >> ], [ isArray |-> TRUE, rows |-> << >> ] }
    \cup { [ isArray |-> TRUE, rows |-> << << c1, c2 >> >> ] :
             c1 \in CellInputs, c2 \in { c \in CellInputs : Len(c.wordIds) < 2 /\ ~c.blocked } }

\* the words arguments: no word, or the word BB of id 1 along the row
WordInputs ==
    { << >>,
      << [ id |-> 1, word |-> << "B", "B" >>, clue |-> << "c", "l", "u", "e", "s" >>,
           direction |-> "horizontal", startRow |-> 0, startCol |-> 0, number |-> 1 ] >> }

ValidateGrid ==
    /\ steps < MaxCalls
    /\ steps' = steps + 1
    /\ \E g \in GridInputs, ws \in WordInputs, strictness \in Strictness :
        LET r == validateGrid(g, ws, strictness, validationCache)
        IN  /\ validationCache' = r.cache
            /\ last' = [ op |-> "validateGrid", ret |-> ~r.threw, reason |-> "",
                         args |-> [ grid |-> g, words |-> ws, strictness |-> strictness ],
                         key |-> r.key, cached |-> r.cached, report |-> r.report ]
    /\ UNCHANGED << grid, words, input >>

\* clearCache, also called by setRules and setStrictness
ClearCache ==
    /\ steps < MaxCalls
    /\ steps' = steps + 1
    /\ validationCache' = << >>
    /\ last' = [ op |-> "clearCache", ret |-> TRUE, reason |-> "" ]
    /\ UNCHANGED << grid, words, input >>

NextValidator == ValidateGrid \/ ClearCache

SpecValidator == Init /\ [][NextValidator]_vars

(***************************************************************************)
(* findConnectedComponents applied to grids of lettered and blocked cells  *)
(***************************************************************************)
ComponentHeight == 3

\* the grids have two columns: room for a step to the left and a step to the right
ComponentColumns == 1 .. 2

\* an empty cell, a cell with a letter, a cell with a letter that is blocked
ComponentCells ==
    { createEmptyCell,
      [ createEmptyCell EXCEPT !.letter = "A", !.wordIds = << 1 >> ],
      [ createEmptyCell EXCEPT !.letter = "A", !.blocked = TRUE ] }

ComponentGrids ==
    { [ isArray |-> TRUE, rows |-> rows ] :
        rows \in [ 1 .. ComponentHeight -> [ ComponentColumns -> ComponentCells ] ] }

InitComponents ==
    /\ grid = createEmptyGrid
    /\ words = {}
    /\ last = [ op |-> "init", ret |-> TRUE, reason |-> "" ]
    /\ steps = 0
    /\ input \in ComponentGrids
    /\ validationCache = << >>

\* findConnectedComponents(grid) and the count validateIsolation reports
FindConnectedComponents ==
    /\ last.op = "init"
    /\ steps' = steps + 1
    /\ last' = [ op |-> "findConnectedComponents", ret |-> TRUE, reason |-> "",
                 components |-> findConnectedComponents(input),
                 reported |-> validateIsolation(input, emptyResult).details.components ]
    /\ UNCHANGED << grid, words, input, validationCache >>

NextComponents == FindConnectedComponents

SpecComponents == InitComponents /\ [][NextComponents]_vars

(***************************************************************************)
(* Word difficulty (WordHelper.calculateWordDifficulty)                    *)
(*                                                                         *)
(* A word is a sequence of letters; a Cyrillic letter is written by its    *)
(* name ("BE" for U+0411, "SOFT_SIGN" for U+042C, "YA" for U+042F, ...),   *)
(* a Latin letter as itself.  A difficulty is the exact fraction           *)
(* [num, den] of the sum the source computes in floating point.            *)
(***************************************************************************)
MaxLetters == 4

\* ['Ї', 'Є', 'Ґ', 'Ь', 'X', 'Z', 'Q']
rareLetters == { "YI", "UKRAINIAN_IE", "GHE_UPTURN", "SOFT_SIGN", "X", "Z", "Q" }

\* the character class [БВГДЖЗЙКЛМНПРСТФХЦЧШЩ]
consonants ==
    { "BE", "VE", "GHE", "DE", "ZHE", "ZE", "SHORT_I", "KA", "EL", "EM", "EN", "PE", "ER",
      "ES", "TE", "EF", "HA", "TSE", "CHE", "SHA", "SHCHA" }

\* ['ЯЄ', 'ЮЯ', 'ЩЯ', 'ЬЯ']
rareCombinations ==
    << << "YA", "UKRAINIAN_IE" >>, << "YU", "YA" >>, << "SHCHA", "YA" >>,
       << "SOFT_SIGN", "YA" >> >>

\* String.prototype.includes for a combination of two letters
includesCombo(word, combo) ==
    \E i \in 1 .. (Len(word) - 1) : word[i] = combo[1] /\ word[i + 1] = combo[2]

\* word.match(/[...]{3,}/g): the matches are found from left to right, each takes a
\* whole run of consonants when the run has three letters or more; run is the length
\* of the run of consonants that ends before position i
RECURSIVE consonantClusters(_, _, _)
consonantClusters(word, i, run) ==
    IF i > Len(word) THEN (IF run >= 3 THEN 1 ELSE 0)
    ELSE IF word[i] \in consonants THEN consonantClusters(word, i + 1, run + 1)
    ELSE (IF run >= 3 THEN 1 ELSE 0) + consonantClusters(word, i + 1, 0)

calculateWordDifficulty_rareIsEasier(word) ==
    LET n == Len(word)
        lengthPart == IF 2 * n * n < 12 * n THEN 2 * n * n ELSE 12 * n
        rareCount == Len(SelectSeq(word, LAMBDA char : char \in rareLetters))
        clusters == consonantClusters(word, 1, 0)
        rareComboCount == Len(SelectSeq(rareCombinations, LAMBDA combo : includesCombo(word, combo)))
        total == lengthPart + 9 * (n - rareCount) + 3 * n * clusters + 3 * n * rareComboCount
    IN  [ num |-> IF total < 30 * n THEN total ELSE 30 * n, den |-> 30 * n ]

\* difficulty = min(length / 15, 0.4) + (rareCount / length) * 0.3
\*              + clusters * 0.1 + rareComboCount * 0.1, capped at 1,
\* in units of 1 / (30 * length)
calculateWordDifficulty(word) ==
    LET n == Len(word)
        lengthPart == IF 2 * n * n < 12 * n THEN 2 * n * n ELSE 12 * n
        rareCount == Len(SelectSeq(word, LAMBDA char : char \in rareLetters))
        clusters == consonantClusters(word, 1, 0)
        rareComboCount == Len(SelectSeq(rareCombinations, LAMBDA combo : includesCombo(word, combo)))
        total == lengthPart + 9 * rareCount + 3 * n * clusters + 3 * n * rareComboCount
    IN  [ num |-> IF total < 30 * n THEN total ELSE 30 * n, den |-> 30 * n ]

\* the letters the words are made of: a rare letter, a consonant, a vowel that ends a
\* rare combination
DifficultyLetters == { "SOFT_SIGN", "BE", "YA" }

\* the pairs of words of equal length
WordPairs ==
    UNION { [ 1 .. n -> DifficultyLetters ] \X [ 1 .. n -> DifficultyLetters ] :
              n \in 1 .. MaxLetters }

InitDifficulty ==
    /\ grid = createEmptyGrid
    /\ words = {}
    /\ last = [ op |-> "init", ret |-> TRUE, reason |-> "" ]
    /\ steps = 0
    /\ input \in WordPairs
    /\ validationCache = << >>

CalculateWordDifficulty ==
    /\ last.op = "init"
    /\ steps' = steps + 1
    /\ last' = [ op |-> "calculateWordDifficulty", ret |-> TRUE, reason |-> "",
                 first |-> calculateWordDifficulty(input[1]),
                 second |-> calculateWordDifficulty(input[2]) ]
    /\ UNCHANGED << grid, words, input, validationCache >>

NextDifficulty == CalculateWordDifficulty

SpecDifficulty == InitDifficulty /\ [][NextDifficulty]_vars

(***************************************************************************)
(* Automatic placement: GridHelper.autoPlaceWords on the grid of the       *)
(* editor                                                                  *)
(***************************************************************************)
MaxWords == 3

\* words.sort((a, b) => b.word.length - a.word.length): a stable sort, longest first
RECURSIVE sortedFrom(_, _, _)
sortedFrom(ws, k, acc) ==
    IF k > Len(ws) THEN acc
    ELSE LET w == ws[k]
             before == Cardinality({ n \in 1 .. Len(acc) : Len(acc[n].word) >= Len(w.word) })
         IN  sortedFrom(ws, k + 1,
                        SubSeq(acc, 1, before) \o << w >> \o SubSeq(acc, before + 1, Len(acc)))

\* variant: the words are tried in the order they were given
sortedWords_inputOrder(ws) == ws

sortedWords(ws) == sortedFrom(ws, 1, << >>)

\* the candidates of newWord across existingWord, outer loop over the letters of newWord
findPossibleIntersections(newWord, existingWord) ==
    LET m == Len(existingWord.word)
        pairs == [ n \in 1 .. (Len(newWord) * m) |->
                     LET i == (n - 1) \div m
                         j == (n - 1) % m
                     IN  [ startRow |-> IF existingWord.direction = "horizontal"
                                        THEN existingWord.startRow - i
                                        ELSE existingWord.startRow + j,
                           startCol |-> IF existingWord.direction = "horizontal"
                                        THEN existingWord.startCol + j
                                        ELSE existingWord.startCol - i,
                           direction |-> IF existingWord.direction = "horizontal"
                                         THEN "vertical" ELSE "horizontal",
                           intersectionLetter |-> newWord[i + 1],
                           intersectionPos |-> [ i |-> i, j |-> j ] ] ]
        matches(x) == newWord[x.intersectionPos.i + 1] = existingWord.word[x.intersectionPos.j + 1]
    IN  SelectSeq(pairs, matches)

\* { ...word, startRow, startCol, direction }
withPlacement(word, startRow, startCol, direction) ==
    [ id |-> word.id, word |-> word.word, number |-> word.number,
      startRow |-> startRow, startCol |-> startCol, direction |-> direction ]

\* the loop over the intersections of one placed word, from the k-th on
RECURSIVE tryIntersections(_, _, _, _)
tryIntersections(g, word, intersections, k) ==
    IF k > Len(intersections) THEN [ placed |-> FALSE, grid |-> g, newWordData |-> word ]
    ELSE LET intersection == intersections[k]
             newWordData == withPlacement(word, intersection.startRow, intersection.startCol,
                                          intersection.direction)
             r == placeWord(g, newWordData)
         IN  IF canPlaceWord(g, word.word, intersection.startRow, intersection.startCol,
                             intersection.direction).canPlace /\ r.ret
             THEN [ placed |-> TRUE, grid |-> r.grid, newWordData |-> newWordData ]
             ELSE tryIntersections(g, word, intersections, k + 1)

\* the loop over placedWords, from the p-th on
RECURSIVE tryPlacedWords(_, _, _, _)
tryPlacedWords(g, word, placedWords, p) ==
    IF p > Len(placedWords) THEN [ placed |-> FALSE, grid |-> g, newWordData |-> word ]
    ELSE LET r == tryIntersections(g, word,
                                   findPossibleIntersections(word.word, placedWords[p]), 1)
         IN  IF r.placed THEN r ELSE tryPlacedWords(g, word, placedWords, p + 1)

\* the loop over sortedWords[1 ..] (0-based), from the i-th word on
RECURSIVE placeOthers(_, _, _, _)
placeOthers(g, sorted, i, placedWords) ==
    IF i >= Len(sorted) THEN [ grid |-> g, placedWords |-> placedWords ]
    ELSE LET r == tryPlacedWords(g, sorted[i + 1], placedWords, 1)
         IN  IF r.placed
             THEN placeOthers(r.grid, sorted, i + 1, Append(placedWords, r.newWordData))
             ELSE placeOthers(g, sorted, i + 1, placedWords)

autoPlaceWords(g, ws) ==
    LET sorted == sortedWords(ws)
    IN  IF Len(sorted) = 0 THEN [ grid |-> g, placedWords |-> << >> ]
        ELSE LET centerRow == GridHeight \div 2
                 centerCol == (GridWidth - Len(sorted[1].word)) \div 2
                 firstWord == withPlacement(sorted[1], centerRow, centerCol, "horizontal")
                 r == placeWord(g, firstWord)
             IN  placeOthers(r.grid, sorted, 1, IF r.ret THEN << firstWord >> ELSE << >>)

\* texts offered to autoPlaceWords: TA and RA cross CAR on its A, AT crosses TA on its T,
\* CART is longer than the grid is wide
AutoTexts ==
    { <<"C", "A", "R">>, <<"T", "A">>, <<"R", "A">>, <<"A", "T">>, <<"C", "A", "R", "T">> }

\* the word lists: the k-th word carries the id and the number k
WordLists ==
    UNION { { [ k \in 1 .. n |-> [ id |-> k, word |-> f[k], number |-> k ] ] :
                f \in [ 1 .. n -> AutoTexts ] } : n \in 0 .. MaxWords }

\* the grid before the call: empty, or with one cell blocked by the editor
AutoGrids ==
    { createEmptyGrid } \cup { blockCell(createEmptyGrid, row, col).grid : row \in Rows, col \in Cols }

InitAutoPlace ==
    /\ grid \in AutoGrids
    /\ words = {}
    /\ last = [ op |-> "init", ret |-> TRUE, reason |-> "" ]
    /\ steps = 0
    /\ input \in WordLists
    /\ validationCache = << >>

AutoPlaceWords ==
    /\ last.op = "init"
    /\ steps' = steps + 1
    /\ LET r == autoPlaceWords(grid, input)
       IN  /\ grid' = r.grid
           /\ last' = [ op |-> "autoPlaceWords", ret |-> TRUE, reason |-> "",
                        before |-> grid, placedWords |-> r.placedWords ]
    /\ UNCHANGED << words, input, validationCache >>

NextAutoPlace == AutoPlaceWords

SpecAutoPlace == InitAutoPlace /\ [][NextAutoPlace]_vars

(***************************************************************************)
(* analyzeSymmetry applied to rectangular grids of free and blocked cells  *)
(***************************************************************************)
SymmetryHeight == 2
SymmetryWidth == 3

SymmetryCells == { createEmptyCell, [ createEmptyCell EXCEPT !.blocked = TRUE ] }

\* every rectangular grid of 1 .. SymmetryHeight rows and 1 .. SymmetryWidth columns
SymmetryGrids ==
    UNION { { [ isArray |-> TRUE, rows |-> rows ] :
                rows \in [ 1 .. h -> [ 1 .. w -> SymmetryCells ] ] } :
              h \in 1 .. SymmetryHeight, w \in 1 .. SymmetryWidth }

InitSymmetry ==
    /\ grid = createEmptyGrid
    /\ words = {}
    /\ last = [ op |-> "init", ret |-> TRUE, reason |-> "" ]
    /\ steps = 0
    /\ input \in SymmetryGrids
    /\ validationCache = << >>

AnalyzeSymmetry ==
    /\ last.op = "init"
    /\ steps' = steps + 1
    /\ LET symmetry == analyzeSymmetry(input)
       IN  last' = [ op |-> "analyzeSymmetry", ret |-> TRUE, reason |-> "",
                     horizontal |-> symmetry.horizontal, vertical |-> symmetry.vertical ]
    /\ UNCHANGED << grid, words, input, validationCache >>

NextSymmetry == AnalyzeSymmetry

SpecSymmetry == InitSymmetry /\ [][NextSymmetry]_vars

(***************************************************************************)
(* validateGrid on a fresh validator, with words in and out of the grid    *)
(***************************************************************************)
MaxReportWords == 2

\* where the word BB is said to lie on a grid of one row and two cells: along the row,
\* one cell to the right (its last letter past the row), one cell to the left (its
\* first letter before the row), down from the first cell (its last letter below it)
ReportPlacements ==
    { [ direction |-> "horizontal", startRow |-> 0, startCol |-> 0 ],
      [ direction |-> "horizontal", startRow |-> 0, startCol |-> 1 ],
      [ direction |-> "horizontal", startRow |-> 0, startCol |-> -1 ],
      [ direction |-> "vertical", startRow |-> 0, startCol |-> 0 ] }

\* the words arguments: the k-th word has the id and the number k
ReportWordInputs ==
    UNION { { [ k \in 1 .. n |->
                  [ id |-> k, word |-> << "B", "B" >>, clue |-> << "c", "l", "u", "e", "s" >>,
                    direction |-> f[k].direction, startRow |-> f[k].startRow,
                    startCol |-> f[k].startCol, number |-> k ] ] :
                f \in [ 1 .. n -> ReportPlacements ] } : n \in 1 .. MaxReportWords }

InitReport ==
    /\ grid = createEmptyGrid
    /\ words = {}
    /\ last = [ op |-> "init", ret |-> TRUE, reason |-> "" ]
    /\ steps = 0
    /\ input \in [ grid : { g \in GridInputs : g.isArray }, words : ReportWordInputs,
                   strictness : Strictness ]
    /\ validationCache = << >>

\* validateGrid(grid, words, strictness) on a validator with an empty cache
ValidateFresh ==
    /\ last.op = "init"
    /\ steps' = steps + 1
    /\ LET r == validateGrid(input.grid, input.words, input.strictness, validationCache)
       IN  /\ validationCache' = r.cache
           /\ last' = [ op |-> "validateFresh", ret |-> ~r.threw, reason |-> "",
                        report |-> r.report ]
    /\ UNCHANGED << grid, words, input >>

NextReport == ValidateFresh

SpecReport == InitReport /\ [][NextReport]_vars

(***************************************************************************)
(* WordHelper.findIntersections: the crossings of two words, best first    *)
(***************************************************************************)
MaxCrossLength == 3

\* the quality as the fraction num / den with den = 40 * max(word1.length, word2.length):
\* the distances to the centres are kept in halves, their average in quarters, and the
\* tenths of the weights give the remaining factor 10
calculateIntersectionQuality(word1, word2, index1, index2) ==
    LET maxLength == IF Len(word1) > Len(word2) THEN Len(word1) ELSE Len(word2)
        den == 40 * maxLength
        base == 20 * maxLength
        centerDistance1 == IF 2 * index1 >= Len(word1) THEN 2 * index1 - Len(word1)
                           ELSE Len(word1) - 2 * index1
        centerDistance2 == IF 2 * index2 >= Len(word2) THEN 2 * index2 - Len(word2)
                           ELSE Len(word2) - 2 * index2
        avgCenterDistance == centerDistance1 + centerDistance2
        closeness == 12 * maxLength - 3 * avgCenterDistance
        letter == word1[index1 + 1]
        rare == IF letter \in rareLetters THEN 8 * maxLength ELSE 0
        quality == base + closeness + rare
    IN  [ num |-> IF quality < den THEN quality ELSE den, den |-> den ]

\* the entries in the order the two loops push them
RECURSIVE foundFrom(_, _, _, _, _)
foundFrom(word1, word2, i, j, intersections) ==
    IF i >= Len(word1) THEN intersections
    ELSE IF j >= Len(word2) THEN foundFrom(word1, word2, i + 1, 0, intersections)
    ELSE foundFrom(word1, word2, i, j + 1,
             IF word1[i + 1] = word2[j + 1]
             THEN Append(intersections,
                      [ letter |-> word1[i + 1], word1Index |-> i, word2Index |-> j,
                        quality |-> calculateIntersectionQuality(word1, word2, i, j) ])
             ELSE intersections)

\* b.quality - a.quality > 0: b goes before a
betterQuality(b, a) == b.quality.num * a.quality.den > a.quality.num * b.quality.den

\* intersections.sort((a, b) => b.quality - a.quality): a stable sort, best first
RECURSIVE sortedByQuality(_, _, _)
sortedByQuality(intersections, k, acc) ==
    IF k > Len(intersections) THEN acc
    ELSE LET e == intersections[k]
             before == SelectSeq(acc, LAMBDA a : ~betterQuality(e, a))
             after == SelectSeq(acc, LAMBDA a : betterQuality(e, a))
         IN  sortedByQuality(intersections, k + 1, before \o << e >> \o after)

findIntersections_unsorted(word1, word2) ==
    foundFrom(word1, word2, 0, 0, << >>)

findIntersections(word1, word2) ==
    sortedByQuality(foundFrom(word1, word2, 0, 0, << >>), 1, << >>)

\* a rare letter and two common ones
CrossLetters == { "Z", "A", "B" }

CrossWords == UNION { [ 1 .. n -> CrossLetters ] : n \in 1 .. MaxCrossLength }

InitIntersections ==
    /\ grid = createEmptyGrid
    /\ words = {}
    /\ last = [ op |-> "init", ret |-> TRUE, reason |-> "" ]
    /\ steps = 0
    /\ input \in CrossWords \X CrossWords
    /\ validationCache = << >>

FindIntersections ==
    /\ last.op = "init"
    /\ steps' = steps + 1
    /\ last' = [ op |-> "findIntersections", ret |-> TRUE, reason |-> "",
                 intersections |-> findIntersections(input[1], input[2]) ]
    /\ UNCHANGED << grid, words, input, validationCache >>

NextIntersections == FindIntersections

SpecIntersections == InitIntersections /\ [][NextIntersections]_vars

(***************************************************************************)
(* WordValidator.validateWordUniqueness: duplicates and similar words      *)
(***************************************************************************)
MaxUniqueLength == 6

\* String.prototype.toUpperCase on the letters of the model
toUpperCase(str) ==
    [ k \in 1 .. Len(str) |->
        IF str[k] = "a" THEN "A" ELSE IF str[k] = "b" THEN "B" ELSE str[k] ]

\* String.prototype.trim
RECURSIVE trim(_)
trim(str) ==
    IF str = << >> THEN str
    ELSE IF Head(str) = " " THEN trim(Tail(str))
    ELSE IF str[Len(str)] = " " THEN trim(SubSeq(str, 1, Len(str) - 1))
    ELSE str

\* str.substring(0, end)
substring0(str, end) ==
    SubSeq(str, 1, IF end > Len(str) THEN Len(str) ELSE IF end < 0 THEN 0 ELSE end)

\* word.replace(/\s/g, '').split('').sort().join(''): the letters as a bag
sortedLetters(str) ==
    LET kept == SelectSeq(str, LAMBDA c : c # " ")
    IN  [ c \in { kept[k] : k \in 1 .. Len(kept) } |->
            Cardinality({ k \in 1 .. Len(kept) : kept[k] = c }) ]

areAnagrams(word1, word2) ==
    IF Len(word1) # Len(word2) THEN FALSE
    ELSE sortedLetters(word1) = sortedLetters(word2)

shareRoot(word1, word2) ==
    IF Len(word1) < 4 \/ Len(word2) < 4 THEN FALSE
    ELSE LET root1 == substring0(word1, IF Len(word1) - 2 < 4 THEN Len(word1) - 2 ELSE 4)
             root2 == substring0(word2, IF Len(word2) - 2 < 4 THEN Len(word2) - 2 ELSE 4)
         IN  root1 = root2

RECURSIVE similarFrom(_, _, _, _)
similarFrom(normalizedWord, existingWords, k, similar) ==
    IF k > Len(existingWords) THEN similar
    ELSE LET normalized == toUpperCase(existingWords[k])
             s1 == IF areAnagrams(normalizedWord, normalized)
                   THEN Append(similar, normalized) ELSE similar
             s2 == IF shareRoot(normalizedWord, normalized)
                   THEN Append(s1, normalized) ELSE s1
         IN  similarFrom(normalizedWord, existingWords, k + 1, s2)

findSimilarWords(word, existingWords) ==
    similarFrom(toUpperCase(word), existingWords, 1, << >>)

\* the errors and warnings the uniqueness check adds to the result; the words of the
\* model are in none of the dictionaries
validateWordUniqueness(word, context, result) ==
    LET normalizedWord == toUpperCase(trim(word))
    IN  IF context.hasExistingWords
        THEN LET duplicates == SelectSeq(context.existingWords,
                                   LAMBDA existingWord : toUpperCase(existingWord) = normalizedWord)
                 similarWords == findSimilarWords(normalizedWord, context.existingWords)
                 errors == IF Len(duplicates) > 0
                           THEN Append(result.errors, [ kind |-> "Duplicate", word |-> normalizedWord ])
                           ELSE result.errors
                 warnings == IF Len(similarWords) > 0
                             THEN Append(result.warnings, [ kind |-> "Similar", words |-> similarWords ])
                             ELSE result.warnings
             IN  [ result EXCEPT !.errors = errors, !.warnings = warnings ]
        ELSE result

UniqueLetters == { "A", "B" }

UniqueWords == UNION { [ 1 .. n -> UniqueLetters ] : n \in 2 .. MaxUniqueLength }

\* the spelling of a word in small letters
lowerCased(str) == [ k \in 1 .. Len(str) |-> IF str[k] = "A" THEN "a" ELSE "b" ]

\* a candidate, in capitals or in small letters between spaces, and a context of one
\* existing word, in capitals or in small letters
InitUniqueness ==
    /\ grid = createEmptyGrid
    /\ words = {}
    /\ last = [ op |-> "init", ret |-> TRUE, reason |-> "" ]
    /\ steps = 0
    /\ \E w \in UniqueWords, e \in UniqueWords, typed \in 1 .. 3 :
          input = [ word |-> IF typed = 2 THEN << " " >> \o lowerCased(w) \o << " " >> ELSE w,
                    context |-> [ hasExistingWords |-> TRUE,
                                  existingWords |-> << IF typed = 3 THEN lowerCased(e) ELSE e >> ] ]
    /\ validationCache = << >>

ValidateWordUniqueness ==
    /\ last.op = "init"
    /\ steps' = steps + 1
    /\ last' = [ op |-> "validateWordUniqueness", ret |-> TRUE, reason |-> "",
                 result |-> validateWordUniqueness(input.word, input.context,
                                [ errors |-> << >>, warnings |-> << >> ]) ]
    /\ UNCHANGED << grid, words, input, validationCache >>

NextUniqueness == ValidateWordUniqueness

SpecUniqueness == InitUniqueness /\ [][NextUniqueness]_vars

(***************************************************************************)
(* Placements only: placeWord calls, or one autoPlaceWords call, on the    *)
(* empty grid                                                              *)
(***************************************************************************)
\* the array of rows the validator is handed for the grid of the editor
gridArray(g) ==
    [ isArray |-> TRUE,
      rows |-> [ row \in 1 .. GridHeight |-> [ col \in 1 .. GridWidth |-> g[<< row - 1, col - 1 >>] ] ] ]

InitPlacements ==
    /\ grid = createEmptyGrid
    /\ words = {}
    /\ last = [ op |-> "init", ret |-> TRUE, reason |-> "" ]
    /\ steps = 0
    /\ input \in WordLists
    /\ validationCache = << >>

\* placeWord calls of the editor, with no list of words to place automatically
PlaceByHand ==
    /\ input = << >>
    /\ last.op # "autoPlaceWords"
    /\ PlaceWord

NextPlacements == PlaceByHand \/ AutoPlaceWords

SpecPlacements == InitPlacements /\ [][NextPlacements]_vars

(***************************************************************************)
(* CrosswordApp: game mode and back                                        *)
(***************************************************************************)
MaxEvents == 4

\* the value of a property an object does not have
undefined == "undefined"

\* if (cell.gameValue): undefined and the empty string are falsy
truthy(value) == value # undefined /\ value # ""

\* the grids of the editor before the game: empty, with CAR along the first row, and
\* with AT down the second column across it
GameWords ==
    << [ id |-> 1, word |-> <<"C", "A", "R">>, startRow |-> 0, startCol |-> 0,
         direction |-> "horizontal", number |-> 1 ],
       [ id |-> 2, word |-> <<"A", "T">>, startRow |-> 0, startCol |-> 1,
         direction |-> "vertical", number |-> 2 ] >>

RECURSIVE placedFirst(_)
placedFirst(n) ==
    IF n = 0 THEN createEmptyGrid ELSE placeWord(placedFirst(n - 1), GameWords[n]).grid

\* the letters of the grid, cell by cell
lettersOf(g) == [ p \in Positions |-> g[p].letter ]

clearGridLetters(g) ==
    [ p \in Positions |->
        IF Len(g[p].wordIds) > 0
        THEN [ g[p] EXCEPT !.gameValue = g[p].letter, !.letter = "" ]
        ELSE g[p] ]

restoreGridLetters(g) ==
    [ p \in Positions |->
        IF truthy(g[p].gameValue)
        THEN [ g[p] EXCEPT !.letter = g[p].gameValue, !.gameValue = undefined ]
        ELSE g[p] ]

\* the cells that count for checkAnswers and those of them that hold the saved letter
totalCells(g) == Cardinality({ p \in Positions : truthy(g[p].gameValue) })
correctCells(g) ==
    Cardinality({ p \in Positions : truthy(g[p].gameValue) /\ g[p].letter = g[p].gameValue })

\* last.answers is the letter of every cell when the editor was last left for the game
InitGame ==
    /\ \E n \in 0 .. Len(GameWords) :
          /\ grid = [ p \in Positions |-> [ gameValue |-> undefined ] @@ placedFirst(n)[p] ]
          /\ words = { GameWords[k] : k \in 1 .. n }
          /\ last = [ op |-> "init", ret |-> TRUE, reason |-> "",
                      answers |-> lettersOf(placedFirst(n)) ]
    /\ steps = 0
    /\ input = [ currentMode |-> "editor" ]
    /\ validationCache = << >>

SwitchToGameMode ==
    /\ steps < MaxEvents
    /\ steps' = steps + 1
    /\ IF words = {}
       THEN /\ last' = [ last EXCEPT !.op = "switchToGameMode", !.ret = FALSE ]
            /\ UNCHANGED << grid, input >>
       ELSE /\ input' = [ input EXCEPT !.currentMode = "game" ]
            /\ grid' = clearGridLetters(grid)
            /\ last' = [ last EXCEPT !.op = "switchToGameMode", !.ret = TRUE,
                           !.answers = IF input.currentMode = "editor"
                                       THEN lettersOf(grid) ELSE @ ]
    /\ UNCHANGED << words, validationCache >>

SwitchToEditorMode ==
    /\ steps < MaxEvents
    /\ steps' = steps + 1
    /\ input' = [ input EXCEPT !.currentMode = "editor" ]
    /\ grid' = restoreGridLetters(grid)
    /\ last' = [ last EXCEPT !.op = "switchToEditorMode", !.ret = TRUE ]
    /\ UNCHANGED << words, validationCache >>

\* the user types x into a cell or empties it
HandleCellInput ==
    /\ steps < MaxEvents
    /\ steps' = steps + 1
    /\ \E row \in Rows, col \in Cols, typed \in { << >>, << "x" >> } :
          LET value == IF typed = << >> THEN "" ELSE IF typed[1] = "x" THEN "X" ELSE typed[1]
          IN  /\ grid' = [ grid EXCEPT ![<< row, col >>].letter = value ]
              /\ last' = [ last EXCEPT !.op = "handleCellInput", !.ret = TRUE,
                             !.answers = IF input.currentMode = "editor"
                                         THEN lettersOf(grid') ELSE @ ]
    /\ UNCHANGED << words, input, validationCache >>

CheckAnswers ==
    /\ steps < MaxEvents
    /\ steps' = steps + 1
    /\ last' = [ last EXCEPT !.op = "checkAnswers",
                   !.ret = (correctCells(grid) = totalCells(grid)) ]
    /\ UNCHANGED << grid, words, input, validationCache >>

\* the user confirms or cancels the dialog
ShowAnswers ==
    /\ steps < MaxEvents
    /\ steps' = steps + 1
    /\ \E confirmed \in BOOLEAN :
          /\ grid' = IF confirmed THEN restoreGridLetters(grid) ELSE grid
          /\ last' = [ last EXCEPT !.op = "showAnswers", !.ret = confirmed ]
    /\ UNCHANGED << words, input, validationCache >>

NextGame ==
    SwitchToGameMode \/ SwitchToEditorMode \/ HandleCellInput \/ CheckAnswers \/ ShowAnswers

SpecGame == InitGame /\ [][NextGame]_vars

(***************************************************************************)
(* CrosswordApp.addWord: the placement path of the editor                  *)
(***************************************************************************)
\* CrosswordApp.canPlaceWord; width and height of state.gridSize are those of the grid
RECURSIVE appCanPlaceFrom(_, _, _, _, _, _)
appCanPlaceFrom(g, word, startRow, startCol, direction, i) ==
    IF i >= Len(word) THEN TRUE
    ELSE LET row == spanRow(startRow, direction, i)
             col == spanCol(startCol, direction, i)
         IN  IF row >= GridHeight \/ col >= GridWidth THEN FALSE
             ELSE IF g[<< row, col >>].blocked THEN FALSE
             ELSE IF g[<< row, col >>].letter # "" /\ g[<< row, col >>].letter # word[i + 1]
             THEN FALSE
             ELSE appCanPlaceFrom(g, word, startRow, startCol, direction, i + 1)

appCanPlaceWord(g, word, startRow, startCol, direction) ==
    appCanPlaceFrom(g, word, startRow, startCol, direction, 0)

RECURSIVE placeWordOnGridFrom(_, _, _)
placeWordOnGridFrom(g, wordData, i) ==
    IF i >= Len(wordData.word) THEN g
    ELSE LET p == << spanRow(wordData.startRow, wordData.direction, i),
                     spanCol(wordData.startCol, wordData.direction, i) >>
         IN  placeWordOnGridFrom(
                 [ g EXCEPT ![p] = [ @ EXCEPT
                       !.letter = wordData.word[i + 1],
                       !.wordIds = Append(@, wordData.id),
                       !.directions = Append(@, wordData.direction),
                       !.isStart = IF i = 0 THEN TRUE ELSE @,
                       !.number = IF i = 0 THEN wordData.number ELSE @ ] ],
                 wordData, i + 1)

placeWordOnGrid(g, wordData) == placeWordOnGridFrom(g, wordData, 0)

\* the word data addWord builds from the form and the selected cell: the text is not
\* empty, the direction is one of the two radio buttons, the cell is a cell of the grid
FormInputs ==
    IF steps >= MaxSteps THEN {}
    ELSE { [ id |-> id, word |-> t, startRow |-> r, startCol |-> c, direction |-> d,
             number |-> getNextWordNumber(words) ] :
             id \in generateWordId, t \in Texts, r \in Rows, c \in Cols,
             d \in { "horizontal", "vertical" } }

AddWord ==
    /\ steps < MaxSteps
    /\ steps' = steps + 1
    /\ \E wordData \in FormInputs :
         IF appCanPlaceWord(grid, wordData.word, wordData.startRow, wordData.startCol,
                            wordData.direction)
         THEN /\ words' = words \cup { wordData }
              /\ grid' = placeWordOnGrid(grid, wordData)
              /\ last' = [ op |-> "addWord", ret |-> TRUE, reason |-> "",
                           args |-> wordData, before |-> grid ]
         ELSE /\ UNCHANGED << grid, words >>
              /\ last' = [ op |-> "addWord", ret |-> FALSE, reason |-> "",
                           args |-> wordData, before |-> grid ]
    /\ UNCHANGED << input, validationCache >>

NextEditor == AddWord

SpecEditor == Init /\ [][NextEditor]_vars

(***************************************************************************)
(* Vocabulary of the properties                                            *)
(***************************************************************************)
Offsets(w) == 0 .. (Len(w.word) - 1)

\* the cell of offset i of the span of w (anchor + direction + length)
CellAt(w, i) ==
    << IF w.direction = "vertical" THEN w.startRow + i ELSE w.startRow,
       IF w.direction = "horizontal" THEN w.startCol + i ELSE w.startCol >>

Span(w) == { CellAt(w, i) : i \in Offsets(w) }

\* a candidate that passes the argument checks: two letters or more, a real orientation
WellFormed(w) == Len(w.word) >= 2 /\ w.direction \in { "horizontal", "vertical" }

InBounds(w) == Span(w) \subseteq Positions

Unblocked(g, w) == \A p \in Span(w) : ~g[p].blocked

\* offset i of w lands on a cell already holding the identical / a different letter
Matches(g, w, i) == g[CellAt(w, i)].letter = w.word[i + 1]
Clashes(g, w, i) == g[CellAt(w, i)].letter # "" /\ g[CellAt(w, i)].letter # w.word[i + 1]

\* some cell of the grid holds a letter of a word
SomeWordOnGrid(g) == \E p \in Positions : g[p].letter # "" /\ g[p].wordIds # << >>

Verdict(g, w) == canPlaceWord(g, w.word, w.startRow, w.startCol, w.direction)

\* every cell equal in all its fields (letter, number, blocked, wordIds, directions,
\* isStart, isEnd, isIntersection)
SameGrid(g, h) == g = h

(***************************************************************************)
(* C1  Round trip: in every reachable grid, for every word data w that     *)
(* placeWord accepts, placeWord(grid, w) followed by removeWord(grid,      *)
(* w.id) leaves every cell equal in all fields to its value before the     *)
(* placement, also when w crosses words already placed.                    *)
(***************************************************************************)
C1_RoundTrip ==
    \A w \in Candidates :
        LET r == placeWord(grid, w)
        IN  r.ret => SameGrid(removeWord(r.grid, w.id).grid, grid)

(***************************************************************************)
(* C2  Whenever canPlaceWord rejects the arguments (too short, bad         *)
(* direction, out of bounds, blocked, full duplicate, letter conflict,     *)
(* isolated), placeWord returns false and no field of any cell changes.    *)
(***************************************************************************)
C2_RejectedPlacementIsNoOp ==
    \A w \in Candidates :
        LET v == Verdict(grid, w)
            r == placeWord(grid, w)
        IN  ~v.canPlace =>
                /\ v.reason \in
                     { "TooShort", "BadDirection", "StartOutOfBounds", "OutOfBounds",
                       "Blocked", "FullDuplicate", "LetterConflict", "Isolated" }
                /\ r.ret = FALSE
                /\ SameGrid(r.grid, grid)

\* a placement was refused as a full duplicate of letters already on the grid
C2_Witness ==
    last.op = "place" /\ ~last.ret /\ last.reason = "FullDuplicate" /\ SomeWordOnGrid(grid)

(***************************************************************************)
(* C3  Isolation rule as claimed: with no word on the grid every well      *)
(* formed candidate with an in-bounds, unblocked span is accepted; once a  *)
(* word is on the grid, such a candidate whose span holds no identical     *)
(* letter is rejected with the Isolated reason.                            *)
(***************************************************************************)
C3_IsolationRuleOriginal ==
    \A w \in Candidates :
        (WellFormed(w) /\ InBounds(w) /\ Unblocked(grid, w)) =>
            LET v == Verdict(grid, w)
            IN  /\ ~SomeWordOnGrid(grid) => v.canPlace
                /\ (SomeWordOnGrid(grid) /\ \A i \in Offsets(w) : ~Matches(grid, w, i)) =>
                       (~v.canPlace /\ v.reason = "Isolated")

(***************************************************************************)
(* C3 amended: with no word on the grid every well formed candidate with   *)
(* an in-bounds, unblocked span is accepted; once a word is on the grid,   *)
(* such a candidate whose span holds no identical letter is rejected, with *)
(* the LetterConflict reason when its span holds a different letter and    *)
(* with the Isolated reason otherwise.                                     *)
(***************************************************************************)
C3_IsolationRule ==
    \A w \in Candidates :
        (WellFormed(w) /\ InBounds(w) /\ Unblocked(grid, w)) =>
            LET v == Verdict(grid, w)
            IN  /\ ~SomeWordOnGrid(grid) => v.canPlace
                /\ (SomeWordOnGrid(grid) /\ \A i \in Offsets(w) : ~Matches(grid, w, i)) =>
                       /\ ~v.canPlace
                       /\ v.reason = IF \E i \in Offsets(w) : Clashes(grid, w, i)
                                     THEN "LetterConflict" ELSE "Isolated"

\* a second word that touches no letter of the first was refused as isolated
C3_Witness ==
    last.op = "place" /\ ~last.ret /\ last.reason = "Isolated" /\ SomeWordOnGrid(grid)

(***************************************************************************)
(* C4  Conflict detection: a well formed candidate whose in-bounds,        *)
(* unblocked span covers a cell holding a different letter is rejected by  *)
(* canPlaceWord with the LetterConflict reason and placeWord leaves the    *)
(* grid unchanged.                                                         *)
(***************************************************************************)
C4_ConflictDetection ==
    \A w \in Candidates :
        ( /\ WellFormed(w) /\ InBounds(w) /\ Unblocked(grid, w)
          /\ \E i \in Offsets(w) : Clashes(grid, w, i) ) =>
            LET v == Verdict(grid, w)
                r == placeWord(grid, w)
            IN  /\ ~v.canPlace
                /\ v.reason = "LetterConflict"
                /\ Len(v.conflicts) = Cardinality({ i \in Offsets(w) : Clashes(grid, w, i) })
                /\ ~r.ret
                /\ SameGrid(r.grid, grid)

\* a placement over a different letter was refused
C4_Witness ==
    last.op = "place" /\ ~last.ret /\ last.reason = "LetterConflict"

(***************************************************************************)
(* C5  Valid intersection: placing a word with a new id perpendicular to   *)
(* a placed word, so that its one shared cell holds the same letter,       *)
(* leaves the shared cell with isIntersection = true and both ids in       *)
(* wordIds, the first placed id first; on a grid holding only the first    *)
(* word the placement succeeds.                                            *)
(***************************************************************************)
\* the grid holds the letters of w1 and nothing else
OnlyWordOnGrid(g, w1) ==
    \A p \in Positions :
        /\ ~g[p].blocked
        /\ IF p \in Span(w1) THEN g[p].wordIds = << w1.id >> ELSE g[p].letter = ""

C5_ValidIntersection ==
    \A w1 \in words : \A w2 \in Candidates : \A i \in Offsets(w2) :
        ( /\ WellFormed(w2) /\ InBounds(w2)
          /\ w2.direction # w1.direction /\ w2.id # w1.id
          /\ CellAt(w2, i) \in Span(w1)
          /\ includes(grid[CellAt(w2, i)].wordIds, w1.id)
          /\ Matches(grid, w2, i) ) =>
            LET r == placeWord(grid, w2)
                x == r.grid[CellAt(w2, i)]
            IN  /\ OnlyWordOnGrid(grid, w1) => r.ret
                /\ r.ret =>
                     /\ x.isIntersection
                     /\ includes(x.wordIds, w1.id) /\ includes(x.wordIds, w2.id)
                     /\ indexOf(x.wordIds, w1.id) < indexOf(x.wordIds, w2.id)
                     /\ x.letter = w2.word[i + 1]

\* two words cross: the second placement succeeded on a cell of the first
C5_Witness ==
    /\ last.op = "place" /\ last.ret /\ Cardinality(words) = 2
    /\ \E p \in Positions :
         /\ grid[p].isIntersection /\ Len(grid[p].wordIds) = 2
         /\ \E w1, w2 \in words :
              /\ w1.direction # w2.direction /\ w1.number < w2.number
              /\ grid[p].wordIds = << w1.id, w2.id >>

(***************************************************************************)
(* C6  Invariant 2: every cell of the span of a word that is placed and    *)
(* not since removed has the word's id in wordIds and the word's           *)
(* direction in directions.                                                *)
(***************************************************************************)
C6_Invariant2 ==
    \A w \in words : \A p \in Span(w) :
        includes(grid[p].wordIds, w.id) /\ includes(grid[p].directions, w.direction)

(***************************************************************************)
(* C7  Invariant 3: for every cell with a non-empty letter and every id in *)
(* its wordIds, the id is the id of a placed word whose span covers the    *)
(* cell and the letter is that word's character at the cell's offset.      *)
(***************************************************************************)
C7_Invariant3 ==
    \A p \in Positions :
        grid[p].letter # "" =>
            \A k \in 1 .. Len(grid[p].wordIds) :
                \E w \in words :
                    /\ w.id = grid[p].wordIds[k]
                    /\ \E i \in Offsets(w) :
                         CellAt(w, i) = p /\ grid[p].letter = w.word[i + 1]

\* a cell holds a letter two placed words agree on
C7_Witness ==
    \E p \in Positions : grid[p].letter # "" /\ Len(grid[p].wordIds) = 2

(***************************************************************************)
(* C8  Invariant 4: no blocked cell lies in the span of a word that is     *)
(* placed and not removed.                                                 *)
(***************************************************************************)
C8_Invariant4 ==
    \A w \in words : \A p \in Span(w) : ~grid[p].blocked

(***************************************************************************)
(* C9  A cell has isIntersection = true if and only if its wordIds has at  *)
(* least two members.                                                      *)
(***************************************************************************)
C9_IsIntersectionIff ==
    \A p \in Positions : grid[p].isIntersection <=> Len(grid[p].wordIds) >= 2

(***************************************************************************)
(* C10  A cell has a number or isStart = true only if it is the first cell *)
(* of a word that is currently placed.                                     *)
(***************************************************************************)
C10_NumberOnlyOnStart ==
    \A p \in Positions :
        (grid[p].number # NoNumber \/ grid[p].isStart) =>
            \E w \in words : CellAt(w, 0) = p

\* C11: word numbers are unique positive integers handed out in increasing order:
\* no two words of the collection share a number, a word that is added gets a
\* number larger than the number of every word present when it is added, and a
\* step (an addition or a removal) changes the number of no word that stays.
C11_WordNumbers ==
    /\ [](\A w1, w2 \in words :
            /\ w1.number >= 1
            /\ w1.number = w2.number => w1 = w2)
    /\ [][ /\ \A w \in words' \ words : \A v \in words : w.number > v.number
           /\ \A v \in words : \A w \in words' : w.id = v.id => w.number = v.number ]_vars

\* a removal has left a word that was added after the removed one: it keeps number 2
C11_Witness ==
    /\ last.op = "remove" /\ last.ret
    /\ \E w \in words : w.number = 2

\* the cell lists wordId among the words that use it
References(cell, wordId) == \E k \in 1 .. Len(cell.wordIds) : cell.wordIds[k] = wordId

\* C12: removeWord returns true exactly when some cell referenced wordId before the
\* call; when none did, every cell is unchanged; when some did, no cell references
\* wordId afterwards and every cell that did not reference it is unchanged.
C12_RemoveWord ==
    \A wordId \in Ids :
        LET r == removeWord(grid, wordId)
            refs == { p \in Positions : References(grid[p], wordId) }
        IN  /\ r.ret <=> refs # {}
            /\ refs = {} => r.grid = grid
            /\ \A p \in Positions : ~References(r.grid[p], wordId)
            /\ \A p \in Positions \ refs : r.grid[p] = grid[p]

\* a removal has returned true on a grid that held a second word: the removed id is
\* referenced by no cell, and lettered cells still reference the other id
C12_Witness ==
    /\ last.op = "remove" /\ last.ret
    /\ \E wordId \in Ids : \A p \in Positions : ~References(grid[p], wordId)
    /\ \E wordId \in Ids, p \in Positions :
           References(grid[p], wordId) /\ grid[p].letter # ""

C14_IdempotentCache ==
    [][ ( /\ last.op = "validateGrid" /\ last.ret
          /\ last'.op = "validateGrid"
          /\ last'.args = last.args )
        => /\ last'.ret
           /\ last'.key = last.key
           /\ last'.report = last.report
           /\ last'.cached
           /\ validationCache' = validationCache ]_vars

\* a call was answered from the cache with the report of a grid holding a word
C14_Witness ==
    /\ last.op = "validateGrid" /\ last.ret /\ last.cached
    /\ Len(last.args.words) > 0
    /\ Len(last.report.warnings) > 0
    /\ last.report = computeReport(last.args.grid, last.args.words, last.args.strictness)

\* C15: no stale cache entry: the report a call returns is the report a fresh
\* validator computes for the same grid, words and strictness.
C15_NoStaleCacheEntry ==
    (last.op = "validateGrid" /\ last.ret)
    => last.report = computeReport(last.args.grid, last.args.words, last.args.strictness)

\* C16: validateGrid never throws: every call returns a report.
C16_NeverThrows == last.op = "validateGrid" => last.ret

\* C17: the score of every report is an integer from 0 to 100.
C17_ScoreBounds ==
    (last.op = "validateGrid" /\ last.ret) => last.report.score \in 0 .. 100

\* the cells of the argument grid that hold a letter and are not blocked
LetteredCells ==
    { p \in (0 .. (Len(input.rows) - 1)) \X (0 .. (Len(input.rows[1]) - 1)) :
        /\ input.rows[p[1] + 1][p[2] + 1].letter # ""
        /\ ~input.rows[p[1] + 1][p[2] + 1].blocked }

\* one step up, down, left or right
Adjacent(p, q) ==
    \/ p[1] = q[1] /\ (p[2] = q[2] + 1 \/ q[2] = p[2] + 1)
    \/ p[2] = q[2] /\ (p[1] = q[1] + 1 \/ q[1] = p[1] + 1)

\* the cells of L reachable from the cells of S by steps inside L
RECURSIVE Reachable(_, _)
Reachable(L, S) ==
    LET next == S \cup { q \in L : \E p \in S : Adjacent(p, q) }
    IN  IF next = S THEN S ELSE Reachable(L, next)

\* the spans a word of two letters or more can take: runs of cells along a row or a column
WordSpans ==
    LET H == Len(input.rows)
        W == Len(input.rows[1])
    IN  { { <<run[1], c>> : c \in run[2] .. run[3] } :
            run \in { t \in (0 .. (H - 1)) \X (0 .. (W - 1)) \X (0 .. (W - 1)) : t[2] < t[3] } }
        \cup
        { { <<r, run[1]>> : r \in run[2] .. run[3] } :
            run \in { t \in (0 .. (W - 1)) \X (0 .. (H - 1)) \X (0 .. (H - 1)) : t[2] < t[3] } }

\* C18: findConnectedComponents returns the maximal sets of lettered, unblocked cells
\* that are mutually reachable by steps up, down, left and right: every component
\* is the set of all such cells reachable from one of its cells, every such cell is
\* in exactly one component, and a grid whose letters are those of two words that
\* share no cell and touch nowhere is reported with components = 2.
C18_Connectivity ==
    last.op = "findConnectedComponents" =>
        LET comps == last.components
            L == LetteredCells
            spans == { S \in WordSpans : S \subseteq L }
            cellsOfComponent(k) == { comps[k][j] : j \in 1 .. Len(comps[k]) }
        IN  /\ \A k \in 1 .. Len(comps) :
                  /\ Len(comps[k]) = Cardinality(cellsOfComponent(k))
                  /\ cellsOfComponent(k) \subseteq L
                  /\ \E p \in cellsOfComponent(k) : cellsOfComponent(k) = Reachable(L, { p })
            /\ \A p \in L :
                  Cardinality({ k \in 1 .. Len(comps) : p \in cellsOfComponent(k) }) = 1
            /\ \A S1, S2 \in spans :
                  ( /\ L = S1 \cup S2
                    /\ S1 \cap S2 = {}
                    /\ \A p \in S1, q \in S2 : ~Adjacent(p, q) )
                  => last.reported = 2

\* the letters of two words lie on two runs that do not touch, and a third cell is blocked
C18_Witness ==
    /\ last.op = "findConnectedComponents"
    /\ last.reported = 2
    /\ \E S1, S2 \in WordSpans :
          /\ LetteredCells = S1 \cup S2
          /\ S1 \cap S2 = {}
          /\ \A p \in S1, q \in S2 : ~Adjacent(p, q)
    /\ \E r \in 1 .. Len(input.rows) : \E c \in 1 .. Len(input.rows[r]) : input.rows[r][c].blocked

\* number of letters of the word that belong to the rare set
RareCount(word) ==
    Cardinality({ i \in 1 .. Len(word) :
                    word[i] \in { "YI", "UKRAINIAN_IE", "GHE_UPTURN", "SOFT_SIGN", "X", "Z", "Q" } })

\* number of maximal runs of three or more consecutive consonants
ConsonantRuns(word) ==
    LET isConsonant(i) == i >= 1 /\ i <= Len(word) /\ word[i] \in consonants
    IN  Cardinality({ i \in 1 .. Len(word) :
                        /\ ~isConsonant(i - 1)
                        /\ isConsonant(i) /\ isConsonant(i + 1) /\ isConsonant(i + 2) })

\* number of rare combinations that occur in the word
RareCombos(word) ==
    Cardinality({ k \in 1 .. Len(rareCombinations) :
                    \E i \in 1 .. (Len(word) - 1) :
                        << word[i], word[i + 1] >> = rareCombinations[k] })

\* the first difficulty is at least the second
AtLeast(d1, d2) == d1.num * d2.den >= d2.num * d1.den

\* C19 as stated: of two words of equal length, the one with strictly more rare
\* letters has a difficulty at least that of the other, whatever their consonant runs
\* and rare combinations.
C19_DifficultyMonotonicityOriginal ==
    ( /\ last.op = "calculateWordDifficulty"
      /\ RareCount(input[1]) > RareCount(input[2]) )
    => AtLeast(last.first, last.second)

\* C19: of two words of equal length with as many runs of three or more consonants
\* and as many rare combinations, the one with strictly more rare letters has a
\* difficulty at least that of the other.
C19_DifficultyMonotonicity ==
    ( /\ last.op = "calculateWordDifficulty"
      /\ RareCount(input[1]) > RareCount(input[2])
      /\ ConsonantRuns(input[1]) = ConsonantRuns(input[2])
      /\ RareCombos(input[1]) = RareCombos(input[2]) )
    => AtLeast(last.first, last.second)

\* two words with one consonant run and one rare combination each, the first with
\* more rare letters and a strictly larger difficulty
C19_Witness ==
    /\ last.op = "calculateWordDifficulty"
    /\ RareCount(input[1]) > RareCount(input[2])
    /\ ConsonantRuns(input[1]) = ConsonantRuns(input[2])
    /\ RareCombos(input[1]) = RareCombos(input[2])
    /\ RareCombos(input[1]) = 1
    /\ ~AtLeast(last.second, last.first)

\* vocabulary of C20
AutoPlaced == last.op = "autoPlaceWords"

\* the place of the k-th given word in the order of trying: after every longer word and
\* after the earlier words of its own length
TryRank(k) ==
    1 + Cardinality({ j \in 1 .. Len(input) :
                        \/ Len(input[j].word) > Len(input[k].word)
                        \/ Len(input[j].word) = Len(input[k].word) /\ j < k })

Tried(r) == input[CHOOSE k \in 1 .. Len(input) : TryRank(k) = r]

RankOfId(id) == TryRank(CHOOSE k \in 1 .. Len(input) : input[k].id = id)

Returned(id) == \E n \in 1 .. Len(last.placedWords) : last.placedWords[n].id = id

At(w, startRow, startCol, direction) ==
    [ id |-> w.id, word |-> w.word, number |-> w.number,
      startRow |-> startRow, startCol |-> startCol, direction |-> direction ]

\* the candidate of s across the committed word e where letter i of s meets letter j of e
Crossing(s, e, i, j) ==
    IF e.direction = "horizontal"
    THEN At(s, e.startRow - i, e.startCol + j, "vertical")
    ELSE At(s, e.startRow + j, e.startCol - i, "horizontal")

\* the candidates of s over the committed words P, named by (committed word, i, j)
Crossings(s, P) ==
    { t \in (1 .. Len(P)) \X (0 .. (Len(s.word) - 1)) \X (0 .. GridWidth + GridHeight) :
        /\ t[3] < Len(P[t[1]].word)
        /\ s.word[t[2] + 1] = P[t[1]].word[t[3] + 1] }

\* scanning order: committed words in commit order, then the letters of s, then those of e
Sooner(a, b) ==
    \/ a[1] < b[1]
    \/ a[1] = b[1] /\ a[2] < b[2]
    \/ a[1] = b[1] /\ a[2] = b[2] /\ a[3] < b[3]

\* the grid once the first n returned words are committed
RECURSIVE GridAfter(_)
GridAfter(n) ==
    IF n = 0 THEN last.before ELSE placeLoop(GridAfter(n - 1), last.placedWords[n], 0)

Passing(s, P) ==
    { t \in Crossings(s, P) :
        Verdict(GridAfter(Len(P)), Crossing(s, P[t[1]], t[2], t[3])).canPlace }

\* the returned words committed before the r-th word is tried
CommittedBefore(r) ==
    LET earlier(w) == RankOfId(w.id) < r
    IN  SelectSeq(last.placedWords, earlier)

Centered(w) ==
    At(w, GridHeight \div 2, (GridWidth - Len(w.word)) \div 2, "horizontal")

OnGridAt(w) ==
    \A i \in 0 .. (Len(w.word) - 1) :
        LET p == IF w.direction = "horizontal" THEN << w.startRow, w.startCol + i >>
                 ELSE << w.startRow + i, w.startCol >>
        IN  /\ p \in Positions
            /\ grid[p].letter = w.word[i + 1]
            /\ \E k \in 1 .. Len(grid[p].wordIds) : grid[p].wordIds[k] = w.id

\* C20: autoPlaceWords is first-fit. The words are tried longest first, ties in the given
\* order; the first tried word is committed horizontally at row floor(height / 2), column
\* floor((width - length) / 2) when canPlaceWord accepts it there and is left out otherwise;
\* every later word is committed at the soonest candidate canPlaceWord accepts, scanning
\* the committed words in commit order and per committed word the candidates in generated
\* order, and is left out when none passes; the returned list holds the committed words
\* in commit order, and each of them is on the grid at its returned position.
C20_AutoPlaceFirstFit ==
    AutoPlaced =>
        LET out == last.placedWords
        IN  /\ \A m, n \in 1 .. Len(out) : m < n => RankOfId(out[m].id) < RankOfId(out[n].id)
            /\ \A n \in 1 .. Len(out) : OnGridAt(out[n])
            /\ Len(input) > 0 =>
                 LET c == Centered(Tried(1))
                 IN  IF Verdict(last.before, c).canPlace
                     THEN Len(out) >= 1 /\ out[1] = c
                     ELSE ~Returned(c.id)
            /\ \A r \in 2 .. Len(input) :
                 LET s == Tried(r)
                     P == CommittedBefore(r)
                     pass == Passing(s, P)
                 IN  IF pass = {} THEN ~Returned(s.id)
                     ELSE LET t == CHOOSE a \in pass : \A b \in pass : a = b \/ Sooner(a, b)
                          IN  /\ Len(out) > Len(P)
                              /\ out[Len(P) + 1] = Crossing(s, P[t[1]], t[2], t[3])

\* a word was committed at a candidate that came after a rejected one, and a third word
\* was committed across a word that is not the first
C20_Witness ==
    /\ AutoPlaced
    /\ Len(last.placedWords) >= 3
    /\ \E r \in 2 .. Len(input) :
         LET s == Tried(r)
             P == CommittedBefore(r)
         IN  /\ Returned(s.id)
             /\ \E a \in Crossings(s, P) \ Passing(s, P), b \in Passing(s, P) : Sooner(a, b)

\* the orientations of the words of the collection the cell lists in its wordIds
OrientationsOf(cell) ==
    { w.direction : w \in { v \in words : References(cell, v.id) } }

\* C21: in every state reached by placeWord and removeWord, the directions of each cell
\* are exactly the orientations of the words listed in its wordIds; in particular the
\* cell shared by two crossing words drops the orientation of the one that is removed.
C21_DirectionsMatchWords ==
    \A p \in Positions :
        { grid[p].directions[k] : k \in 1 .. Len(grid[p].directions) } = OrientationsOf(grid[p])

\* C22: a well formed candidate is rejected with the FullDuplicate reason exactly when
\* its span is in bounds, unblocked, and every cell of the span already holds the letter
\* the candidate would write there; hence every successful placeWord writes a letter
\* into a cell that held none, and a second placement of the same word at the same
\* position is refused.
C22_FullDuplicate ==
    /\ [](\A w \in Candidates :
            WellFormed(w) =>
                LET v == Verdict(grid, w)
                IN  (~v.canPlace /\ v.reason = "FullDuplicate") <=>
                        /\ InBounds(w)
                        /\ Unblocked(grid, w)
                        /\ \A i \in Offsets(w) : Matches(grid, w, i))
    /\ [][ (last'.op = "place" /\ last'.ret) =>
              \E p \in Positions : grid[p].letter = "" /\ grid'[p].letter # "" ]_vars

\* the second placement of the one word of the collection over its own cells was refused
C22_Witness ==
    /\ last.op = "place" /\ ~last.ret /\ last.reason = "FullDuplicate"
    /\ Cardinality(words) = 1
    /\ \E w \in words : \A i \in Offsets(w) : Matches(grid, w, i)

\* C23: blockCell on a cell of the grid returns true, leaves that cell blocked, without
\* letter, number, word ids and directions, with isStart and isEnd false, and leaves
\* every other cell as it was; unblockCell on a cell of the grid returns true and changes
\* nothing but the blocked flag of that cell; off the grid both return false and change
\* nothing.
C23_BlockFrame ==
    \A row \in AnchorRows, col \in AnchorCols :
        LET p == << row, col >>
            b == blockCell(grid, row, col)
            u == unblockCell(grid, row, col)
        IN  IF p \in Positions
            THEN /\ b.ret
                 /\ b.grid[p].blocked
                 /\ b.grid[p].letter = "" /\ b.grid[p].number = NoNumber
                 /\ b.grid[p].wordIds = << >> /\ b.grid[p].directions = << >>
                 /\ ~b.grid[p].isStart /\ ~b.grid[p].isEnd
                 /\ \A q \in Positions \ { p } : b.grid[q] = grid[q]
                 /\ u.ret
                 /\ ~u.grid[p].blocked
                 /\ [ u.grid[p] EXCEPT !.blocked = grid[p].blocked ] = grid[p]
                 /\ \A q \in Positions \ { p } : u.grid[q] = grid[q]
            ELSE /\ ~b.ret /\ b.grid = grid
                 /\ ~u.ret /\ u.grid = grid

\* a cell under a word of the collection was blocked
C23_Witness ==
    /\ last.op = "block" /\ last.ret
    /\ \E w \in words : \E p \in Span(w) \cap Positions :
          grid[p].blocked /\ grid[p].letter = "" /\ grid[p].wordIds = << >>

\* the pairs of cells a mirror compares, and those of them that agree on blocked
RowPairs == { p \in (0 .. (height(input) - 1)) \X (0 .. (width(input) - 1)) :
                2 * p[1] < height(input) - 1 }
ColPairs == { p \in (0 .. (height(input) - 1)) \X (0 .. (width(input) - 1)) :
                2 * p[2] < width(input) - 1 }
RowAgree == { p \in RowPairs :
                at(input, p[1], p[2]).blocked = at(input, height(input) - 1 - p[1], p[2]).blocked }
ColAgree == { p \in ColPairs :
                at(input, p[1], p[2]).blocked = at(input, p[1], width(input) - 1 - p[2]).blocked }

\* the fraction f lies in [0, 1], and equals agree / pairs when there is a pair
IsRatioOf(f, agree, pairs) ==
    /\ f.den > 0 /\ 0 <= f.num /\ f.num <= f.den
    /\ pairs # {} => f.num * Cardinality(pairs) = Cardinality(agree) * f.den

\* C24: for every rectangular grid, square or not, analyzeSymmetry returns as horizontal
\* the share of the pairs (row, height-1-row) that agree on blocked among the pairs
\* compared for that mirror, as vertical the like share for (col, width-1-col), and both
\* lie in [0, 1].
C24_SymmetryRatios ==
    last.op = "analyzeSymmetry" =>
        /\ IsRatioOf(last.horizontal, RowAgree, RowPairs)
        /\ IsRatioOf(last.vertical, ColAgree, ColPairs)

\* some letter of the word lies on no cell of the grid
LeavesGrid(g, word) ==
    \E i \in 0 .. (Len(word.word) - 1) :
        LET row == IF word.direction = "vertical" THEN word.startRow + i ELSE word.startRow
            col == IF word.direction = "horizontal" THEN word.startCol + i ELSE word.startCol
        IN  ~(row >= 0 /\ row < Len(g.rows) /\ col >= 0 /\ col < Len(g.rows[row + 1]))

HasError(report, kind) ==
    \E k \in 1 .. Len(report.errors) : report.errors[k].kind = kind

\* C25: when a word of the collection leaves the grid, the report has the out-of-bounds
\* error for that word, the later checks (intersections, integrity, density,
\* connectivity, quality) have all written their sub-metrics into it, and no internal
\* failure has forced its score to 0.
C25_OutOfBoundsKeepsChecks ==
    (last.op = "validateFresh" /\ \E k \in 1 .. Len(input.words) :
                                      LeavesGrid(input.grid, input.words[k])) =>
        /\ \A k \in 1 .. Len(input.words) :
              LeavesGrid(input.grid, input.words[k]) =>
                  \E e \in 1 .. Len(last.report.errors) :
                      /\ last.report.errors[e].kind = "OutOfBounds"
                      /\ last.report.errors[e].word = input.words[k].word
        /\ { "intersections", "integrityIssues", "density", "connectivity", "quality" }
               \subseteq last.report.details.computed
        /\ ~HasError(last.report, "Critical")

\* the pairs (i, j) of equal letters of the two words
EqualLetters(word1, word2) ==
    { p \in (0 .. (Len(word1) - 1)) \X (0 .. (Len(word2) - 1)) :
        word1[p[1] + 1] = word2[p[2] + 1] }

\* entry a was generated before entry b: i ascending, then j ascending
GeneratedBefore(a, b) ==
    \/ a.word1Index < b.word1Index
    \/ a.word1Index = b.word1Index /\ a.word2Index < b.word2Index

SameQuality(a, b) == a.quality.num * b.quality.den = b.quality.num * a.quality.den

\* the quality is 0.5, plus a closeness part between 0 and 0.3, plus 0.2 exactly when
\* the letter is rare, capped at 1 (all in tenths of the denominator)
QualityMadeOf(e) ==
    LET rare == IF e.letter \in rareLetters THEN 2 * e.quality.den ELSE 0
        closeness == 10 * e.quality.num - 5 * e.quality.den - rare
    IN  /\ 2 * e.quality.num >= e.quality.den
        /\ e.quality.num <= e.quality.den
        /\ e.quality.num < e.quality.den =>
              closeness >= 0 /\ closeness <= 3 * e.quality.den
        /\ e.quality.num = e.quality.den => rare > 0

\* C26: findIntersections returns exactly one entry for every pair (i, j) of equal
\* letters, each with a quality between 0.5 and 1 made of the base, the closeness part
\* and the rare-letter part, and the list is ordered by non-increasing quality with
\* entries of equal quality in the order of generation.
C26_IntersectionsSorted ==
    last.op = "findIntersections" =>
        LET r == last.intersections
        IN  /\ { << r[k].word1Index, r[k].word2Index >> : k \in 1 .. Len(r) }
                   = EqualLetters(input[1], input[2])
            /\ Len(r) = Cardinality(EqualLetters(input[1], input[2]))
            /\ \A k \in 1 .. Len(r) :
                  /\ r[k].letter = input[1][r[k].word1Index + 1]
                  /\ QualityMadeOf(r[k])
            /\ \A a, b \in 1 .. Len(r) :
                  a < b => \/ betterQuality(r[a], r[b])
                           \/ SameQuality(r[a], r[b]) /\ GeneratedBefore(r[a], r[b])

C26_Witness ==
    /\ last.op = "findIntersections"
    /\ \E a, b \in 1 .. Len(last.intersections) :
          /\ a < b
          /\ GeneratedBefore(last.intersections[b], last.intersections[a])
    /\ \E a, b \in 1 .. Len(last.intersections) :
          a < b /\ SameQuality(last.intersections[a], last.intersections[b])
    /\ \E a \in 1 .. Len(last.intersections) :
          last.intersections[a].letter \in rareLetters

\* the candidate as the validator normalizes it, and the existing word in capitals
Capitals(str) ==
    LET kept == SelectSeq(str, LAMBDA c : c # " ")
    IN  [ k \in 1 .. Len(kept) |->
            IF kept[k] \in { "a", "A" } THEN "A" ELSE "B" ]

SameLetters(u, v) ==
    /\ Len(u) = Len(v)
    /\ \A c \in UniqueLetters :
          Cardinality({ k \in 1 .. Len(u) : u[k] = c })
              = Cardinality({ k \in 1 .. Len(v) : v[k] = c })

\* the existing word starts with the first min(4, len - 2) characters of the candidate
SharesRootOf(candidate, existing) ==
    LET n == IF Len(candidate) - 2 < 4 THEN Len(candidate) - 2 ELSE 4
    IN  /\ n >= 1
        /\ Len(existing) >= n
        /\ \A k \in 1 .. n : existing[k] = candidate[k]

\* C27: the uniqueness check adds an error exactly for an existing word equal to the
\* normalized candidate, and a warning exactly for an existing word that is an anagram
\* of it or shares its first min(4, len - 2) characters, whatever the two lengths.
C27_UniquenessVerdicts ==
    last.op = "validateWordUniqueness" =>
        LET candidate == Capitals(input.word)
            existing == Capitals(input.context.existingWords[1])
        IN  /\ (Len(last.result.errors) > 0) <=> (existing = candidate)
            /\ (Len(last.result.warnings) > 0)
                  <=> (SameLetters(candidate, existing) \/ SharesRootOf(candidate, existing))

\* the cells of the grid that hold a letter
Lettered == { p \in Positions : grid[p].letter # "" }

\* C28: with placeWord calls only, or one autoPlaceWords call, on a grid that started
\* empty, every cell with a letter is reached from every other through neighbouring
\* cells with letters, and findConnectedComponents finds at most one component.
C28_OneComponent ==
    /\ \A p \in Lettered : Reachable(Lettered, { p }) = Lettered
    /\ Len(findConnectedComponents(gridArray(grid))) <= 1

C28_Witness ==
    /\ last.op = "place"
    /\ last.ret
    /\ Cardinality(words) >= 2
    /\ Len(findConnectedComponents(gridArray(grid))) = 1

\* C29: whatever happened in game mode, switching back to the editor leaves in every
\* cell of a word the letter the cell had when the editor was left for the game.
C29_GameRoundTrip ==
    [][(last'.op = "switchToEditorMode" /\ input.currentMode = "game") =>
          \A p \in Positions :
              Len(grid[p].wordIds) > 0 => grid'[p].letter = last.answers[p]]_vars

\* the cells the word of the last addWord call covers
Touched ==
    { << spanRow(last.args.startRow, last.args.direction, i),
         spanCol(last.args.startCol, last.args.direction, i) >> :
        i \in 0 .. (Len(last.args.word) - 1) }

NoRepeat(seq) == \A i, j \in 1 .. Len(seq) : seq[i] = seq[j] => i = j

\* C30: addWord of the editor accepts a word exactly when GridHelper.canPlaceWord accepts
\* it on the same grid, and then every cell of the word has the letter, the word ids and
\* the directions GridHelper.placeWord gives it, each id and direction once.
C30_EditorAgreesWithEngine ==
    last.op = "addWord" =>
        LET engine == placeWord(last.before, last.args)
        IN  /\ last.ret <=> engine.ret
            /\ last.ret =>
                  \A p \in Touched :
                      /\ grid[p].letter = engine.grid[p].letter
                      /\ grid[p].wordIds = engine.grid[p].wordIds
                      /\ grid[p].directions = engine.grid[p].directions
                      /\ NoRepeat(grid[p].wordIds)
                      /\ NoRepeat(grid[p].directions)

====
